---- MODULE Spec2Model ----
(***************************************************************************)
(* A model of the password tools web application: the /api/generate route  *)
(* (POST, its sanitizers and invokePython), the generator it spawns, and   *)
(* the PasswordGeneratorForm component with its history and storage.       *)
(*                                                                         *)
(* Strings whose content matters are sequences of one-character strings,   *)
(* so that trimming, regular-expression tests, parseInt and String() are   *)
(* computed character by character.                                        *)
(***************************************************************************)
EXTENDS Integers, Sequences, FiniteSets, TLC

VARIABLES
    req,        \* the POST invocation being served (one request record)
    gen,        \* what the spawned generator drew and printed for that request
    form,       \* the React state of PasswordGeneratorForm
    ui,         \* the page: the component mounted or not, the fetches of handleSubmit pending
    storage,    \* sessionStorage["passwordHistory"]
    served,     \* passwords delivered by 2xx responses since the session began, newest first
    calls,      \* the invocations of POST that run concurrently, each with its child process
    shuffling,  \* one call of the random source's shuffle: its input, the indices drawn, its output
    probing     \* one numeric value given to sanitizeNumber as a number and as its decimal string

vars == <<req, gen, form, ui, storage, served, calls, shuffling, probing>>

-----------------------------------------------------------------------------
(* Characters and strings *)

Digits == {"0", "1", "2", "3", "4", "5", "6", "7", "8", "9"}

Letters ==
    {"a", "b", "c", "d", "e", "f", "g", "h", "i", "j", "k", "l", "m",
     "n", "o", "p", "q", "r", "s", "t", "u", "v", "w", "x", "y", "z",
     "A", "B", "C", "D", "E", "F", "G", "H", "I", "J", "K", "L", "M",
     "N", "O", "P", "Q", "R", "S", "T", "U", "V", "W", "X", "Y", "Z"}

\* What String.prototype.trim and parseInt skip.
Whitespace == {" ", "\t", "\n", "\r"}

\* The regular expression class \w.
WordChars == Letters \cup Digits \cup {"_"}

DigitValue(c) ==
    CASE c = "0" -> 0 [] c = "1" -> 1 [] c = "2" -> 2 [] c = "3" -> 3
      [] c = "4" -> 4 [] c = "5" -> 5 [] c = "6" -> 6 [] c = "7" -> 7
      [] c = "8" -> 8 [] c = "9" -> 9

DigitChar(d) ==
    CASE d = 0 -> "0" [] d = 1 -> "1" [] d = 2 -> "2" [] d = 3 -> "3"
      [] d = 4 -> "4" [] d = 5 -> "5" [] d = 6 -> "6" [] d = 7 -> "7"
      [] d = 8 -> "8" [] d = 9 -> "9"

Max(a, b) == IF a >= b THEN a ELSE b

Min(a, b) == IF a <= b THEN a ELSE b

Take(s, n) == SubSeq(s, 1, Min(n, Len(s)))

Drop(s, n) == SubSeq(s, n + 1, Len(s))

RECURSIVE TrimStart(_)
TrimStart(s) ==
    IF s # <<>> /\ Head(s) \in Whitespace THEN TrimStart(Tail(s)) ELSE s

RECURSIVE TrimEnd(_)
TrimEnd(s) ==
    IF s # <<>> /\ s[Len(s)] \in Whitespace
    THEN TrimEnd(SubSeq(s, 1, Len(s) - 1))
    ELSE s

\* String.prototype.trim
Trim(s) == TrimEnd(TrimStart(s))

\* The longest prefix of s made of decimal digits.
RECURSIVE DigitPrefix(_)
DigitPrefix(s) ==
    IF s # <<>> /\ Head(s) \in Digits
    THEN <<Head(s)>> \o DigitPrefix(Tail(s))
    ELSE <<>>

RECURSIVE DigitsToInt(_)
DigitsToInt(s) ==
    IF s = <<>> THEN 0
    ELSE 10 * DigitsToInt(SubSeq(s, 1, Len(s) - 1)) + DigitValue(s[Len(s)])

\* A JavaScript number as the model needs it: NaN, or a value in tenths
\* (n10 = 10 * value), which keeps one decimal place of a non-integer.
NaN == [nan |-> TRUE, n10 |-> 0]

IntNum(i) == [nan |-> FALSE, n10 |-> 10 * i]

TenthsNum(t) == [nan |-> FALSE, n10 |-> t]

\* Number.isInteger
NumberIsInteger(x) == ~x.nan /\ x.n10 % 10 = 0

\* A faulty variant of ParseInt: the sign is read and dropped.
ParseIntIgnoresSign(s) ==
    LET t == TrimStart(s)
        u == IF t # <<>> /\ Head(t) \in {"-", "+"} THEN Tail(t) ELSE t
        d == DigitPrefix(u)
    IN  IF d = <<>> THEN NaN ELSE IntNum(DigitsToInt(d))

\* Number.parseInt(s, 10): leading white space is skipped, an optional sign
\* is read, then the longest run of digits; NaN when that run is empty.
ParseInt(s) ==
    LET t == TrimStart(s)
        neg == t # <<>> /\ Head(t) = "-"
        u == IF t # <<>> /\ Head(t) \in {"-", "+"} THEN Tail(t) ELSE t
        d == DigitPrefix(u)
    IN  IF d = <<>> THEN NaN
        ELSE IntNum(IF neg THEN 0 - DigitsToInt(d) ELSE DigitsToInt(d))

\* String(n) of a non-negative integer.
RECURSIVE NatToString(_)
NatToString(n) ==
    IF n < 10 THEN <<DigitChar(n)>>
    ELSE NatToString(n \div 10) \o <<DigitChar(n % 10)>>

\* String(n) of an integer.
IntToString(n) == IF n < 0 THEN <<"-">> \o NatToString(0 - n) ELSE NatToString(n)

-----------------------------------------------------------------------------
(* JSON values carried by a request body *)

Undefined == [t |-> "undefined", num |-> NaN, str |-> <<>>, b |-> FALSE]

Null == [t |-> "null", num |-> NaN, str |-> <<>>, b |-> FALSE]

JNum(x) == [t |-> "number", num |-> x, str |-> <<>>, b |-> FALSE]

JInt(i) == JNum(IntNum(i))

JStr(s) == [t |-> "string", num |-> NaN, str |-> s, b |-> FALSE]

JBool(v) == [t |-> "boolean", num |-> NaN, str |-> <<>>, b |-> v]

-----------------------------------------------------------------------------
(* route.ts: limits and sanitizers *)

NumericKeys ==
    {"length", "specialCount", "digitCount", "mixedCaseCount", "wordCount",
     "passphraseDigitCount", "passphraseSpecialCount", "passphraseMixedCount"}

\* A faulty variant of LIMITS: the server admits fewer mixed-case letters and
\* fewer words than the form does.
LIMITSNarrower ==
    [length                 |-> [min |-> 4, max |-> 256, default |-> 16],
     specialCount           |-> [min |-> 0, max |-> 64,  default |-> 2],
     digitCount             |-> [min |-> 0, max |-> 64,  default |-> 2],
     mixedCaseCount         |-> [min |-> 0, max |-> 64,  default |-> 6],
     wordCount              |-> [min |-> 2, max |-> 12,  default |-> 4],
     passphraseDigitCount   |-> [min |-> 0, max |-> 32,  default |-> 2],
     passphraseSpecialCount |-> [min |-> 0, max |-> 32,  default |-> 1],
     passphraseMixedCount   |-> [min |-> 0, max |-> 64,  default |-> 2]]

LIMITS ==
    [length                 |-> [min |-> 4, max |-> 256, default |-> 16],
     specialCount           |-> [min |-> 0, max |-> 64,  default |-> 2],
     digitCount             |-> [min |-> 0, max |-> 64,  default |-> 2],
     mixedCaseCount         |-> [min |-> 0, max |-> 128, default |-> 6],
     wordCount              |-> [min |-> 2, max |-> 16,  default |-> 4],
     passphraseDigitCount   |-> [min |-> 0, max |-> 32,  default |-> 2],
     passphraseSpecialCount |-> [min |-> 0, max |-> 32,  default |-> 1],
     passphraseMixedCount   |-> [min |-> 0, max |-> 64,  default |-> 2]]

\* The longest separator SAFE_SEPARATOR_REGEX admits: the 5 of {0,5}.
SeparatorMaxLen == 5

\* The character class of SAFE_SEPARATOR_REGEX: [\w\-_.:|~]
SafeSeparatorChars == WordChars \cup {"-", "_", ".", ":", "|", "~"}

\* SAFE_SEPARATOR_REGEX.test(s), for /^[\w\-_.:|~]{0,5}$/
SAFE_SEPARATOR_REGEX(s) ==
    /\ Len(s) <= SeparatorMaxLen
    /\ \A i \in 1..Len(s) : s[i] \in SafeSeparatorChars

\* A faulty variant of clamp: the upper bound is not applied.
clampNoMax(value, min, max) ==
    IF value.nan THEN min ELSE Max(min, value.n10 \div 10)

\* clamp(value, min, max); its callers pass NaN or an integer.
clamp(value, min, max) ==
    IF value.nan THEN min ELSE Max(min, Min(value.n10 \div 10, max))

\* A faulty variant of sanitizeNumber: the fallback is the minimum, not the default.
sanitizeNumberFallsToMin(raw, key) ==
    LET limits == LIMITS[key]
    IN  IF raw.t = "number" /\ NumberIsInteger(raw.num)
        THEN clamp(raw.num, limits.min, limits.max)
        ELSE IF raw.t = "string" /\ Trim(raw.str) # <<>>
                /\ NumberIsInteger(ParseInt(raw.str))
        THEN clamp(ParseInt(raw.str), limits.min, limits.max)
        ELSE limits.min

sanitizeNumber(raw, key) ==
    LET limits == LIMITS[key]
    IN  IF raw.t = "number" /\ NumberIsInteger(raw.num)
        THEN clamp(raw.num, limits.min, limits.max)
        ELSE IF raw.t = "string" /\ Trim(raw.str) # <<>>
                /\ NumberIsInteger(ParseInt(raw.str))
        THEN clamp(ParseInt(raw.str), limits.min, limits.max)
        ELSE limits.default

\* A faulty variant of sanitizeSeparator: the regular expression is not consulted.
sanitizeSeparatorNoRegex(raw) ==
    IF raw.t # "string" THEN <<"-">>
    ELSE IF Trim(raw.str) = <<>> THEN <<"-">>
    ELSE Trim(raw.str)

sanitizeSeparator(raw) ==
    IF raw.t # "string" THEN <<"-">>
    ELSE IF Trim(raw.str) = <<>> THEN <<"-">>
    ELSE IF ~SAFE_SEPARATOR_REGEX(Trim(raw.str)) THEN <<"-">>
    ELSE Trim(raw.str)

\* A faulty variant of sanitizeBoolean: the strings are not recognised.
sanitizeBooleanOnlyBooleans(raw, fallback) ==
    IF raw.t = "boolean" THEN raw.b ELSE fallback

sanitizeBoolean(raw, fallback) ==
    IF raw.t = "boolean" THEN raw.b
    ELSE IF raw.t = "string" /\ raw.str = <<"t", "r", "u", "e">> THEN TRUE
    ELSE IF raw.t = "string" /\ raw.str = <<"f", "a", "l", "s", "e">> THEN FALSE
    ELSE fallback

-----------------------------------------------------------------------------
(* Request bodies *)

Keys ==
    NumericKeys \cup {"mode", "wordSeparator", "randomizeWordCapitalization",
                      "excludeAmbiguous"}

NoFields == [k \in Keys |-> Undefined]

\* The JSON object with the given members; a key it lacks reads as undefined.
ObjectBody(members) ==
    [kind |-> "object", len |-> 0,
     f |-> [k \in Keys |-> IF k \in DOMAIN members THEN members[k] ELSE Undefined]]

\* Text that request.json() cannot parse.
InvalidBody == [kind |-> "invalid", len |-> 0, f |-> NoFields]

\* Valid JSON that is not an object: null, a number or boolean, and a string
\* or an array of len elements (whose only property the handler reads is length).
NullBody == [kind |-> "null", len |-> 0, f |-> NoFields]

PrimitiveBody == [kind |-> "primitive", len |-> 0, f |-> NoFields]

SizedBody(kind, n) == [kind |-> kind, len |-> n, f |-> NoFields]

NoBody == [kind |-> "none", len |-> 0, f |-> NoFields]

\* payload[key] as JavaScript evaluates it (never applied to null).
Get(payload, key) ==
    IF payload.kind = "object" THEN payload.f[key]
    ELSE IF payload.kind \in {"string", "array"} /\ key = "length"
    THEN JInt(payload.len)
    ELSE Undefined

WordsStr == <<"w", "o", "r", "d", "s">>

CharactersStr == <<"c", "h", "a", "r", "a", "c", "t", "e", "r", "s">>

-----------------------------------------------------------------------------
(* route.ts: POST and invokePython *)

\* One element of the argv array: a literal flag, or a computed string.
Flag(name) == [lit |-> name, str |-> <<>>]

Val(s) == [lit |-> "", str |-> s]

NoReason == [kind |-> "none", text |-> <<>>]

NoResponse ==
    [kind |-> "none", status |-> 0, hasPassword |-> FALSE, password |-> <<>>,
     hasError |-> FALSE, error |-> ""]

\* NextResponse.json({ password })
PasswordResponse(pw) ==
    [kind |-> "json", status |-> 200, hasPassword |-> TRUE, password |-> pw,
     hasError |-> FALSE, error |-> ""]

\* NextResponse.json({ error }, { status })
ErrorResponse(msg, status) ==
    [kind |-> "json", status |-> status, hasPassword |-> FALSE, password |-> <<>>,
     hasError |-> TRUE, error |-> msg]

\* POST rejected with an exception: the handler produced no response of its own.
Threw == [NoResponse EXCEPT !.kind = "threw"]

InvalidJsonMsg == "Invalid JSON body."

CountExceedsLengthMsg == "Sum of selected character counts cannot exceed total length."

UnableMsg == "Unable to generate password at this time."

InitReq ==
    [pc |-> "idle", body |-> NoBody, mode |-> "", args |-> <<>>, checked |-> FALSE,
     spawns |-> 0, stdout |-> <<>>, stderr |-> <<>>, chunks |-> 0,
     closed |-> FALSE, exit |-> 0, errored |-> FALSE,
     promise |-> "none", value |-> <<>>, reason |-> NoReason, settles |-> 0,
     response |-> NoResponse, responses |-> 0]

\* A faulty variant of ModeOf: the mode tag is ignored.
ModeOfAlwaysCharacters(payload) == "characters"

\* const mode = payload.mode === "words" ? "words" : "characters"
ModeOf(payload) ==
    IF Get(payload, "mode") = JStr(WordsStr) THEN "words" ELSE "characters"

\* A faulty variant of CountsExceedLength: the comparison is off by one.
CountsExceedLengthOffByOne(length, specialCount, digitCount, mixedCaseCount) ==
    specialCount + digitCount + mixedCaseCount > length + 1

\* if (specialCount + digitCount + mixedCaseCount > length)
CountsExceedLength(length, specialCount, digitCount, mixedCaseCount) ==
    specialCount + digitCount + mixedCaseCount > length

\* A faulty variant of CharacterArgs: the length passed is one too large.
CharacterArgsLongerLength(p) ==
    << Flag("--length"),
       Val(IntToString(sanitizeNumber(Get(p, "length"), "length") + 1)),
       Flag("--special-count"),
       Val(IntToString(sanitizeNumber(Get(p, "specialCount"), "specialCount"))),
       Flag("--digit-count"),
       Val(IntToString(sanitizeNumber(Get(p, "digitCount"), "digitCount"))),
       Flag("--mixed-case-count"),
       Val(IntToString(sanitizeNumber(Get(p, "mixedCaseCount"), "mixedCaseCount"))) >>

\* A faulty variant of CharacterArgs: the special and digit counts are swapped.
CharacterArgsSwapsCounts(p) ==
    << Flag("--length"), Val(IntToString(sanitizeNumber(Get(p, "length"), "length"))),
       Flag("--special-count"),
       Val(IntToString(sanitizeNumber(Get(p, "digitCount"), "digitCount"))),
       Flag("--digit-count"),
       Val(IntToString(sanitizeNumber(Get(p, "specialCount"), "specialCount"))),
       Flag("--mixed-case-count"),
       Val(IntToString(sanitizeNumber(Get(p, "mixedCaseCount"), "mixedCaseCount"))) >>

CharacterArgs(p) ==
    << Flag("--length"), Val(IntToString(sanitizeNumber(Get(p, "length"), "length"))),
       Flag("--special-count"),
       Val(IntToString(sanitizeNumber(Get(p, "specialCount"), "specialCount"))),
       Flag("--digit-count"),
       Val(IntToString(sanitizeNumber(Get(p, "digitCount"), "digitCount"))),
       Flag("--mixed-case-count"),
       Val(IntToString(sanitizeNumber(Get(p, "mixedCaseCount"), "mixedCaseCount"))) >>

\* A faulty variant of PassphraseArgs: the separator of the request is not passed.
PassphraseArgsFixedSeparator(p) ==
    << Flag("--use-words"),
       Flag("--word-count"),
       Val(IntToString(sanitizeNumber(Get(p, "wordCount"), "wordCount"))),
       Flag("--word-separator"), Val(<<"-">>),
       Flag("--passphrase-digit-count"),
       Val(IntToString(sanitizeNumber(Get(p, "passphraseDigitCount"),
                                      "passphraseDigitCount"))),
       Flag("--passphrase-special-count"),
       Val(IntToString(sanitizeNumber(Get(p, "passphraseSpecialCount"),
                                      "passphraseSpecialCount"))),
       Flag("--passphrase-mixed-count"),
       Val(IntToString(sanitizeNumber(Get(p, "passphraseMixedCount"),
                                      "passphraseMixedCount"))),
       IF sanitizeBoolean(Get(p, "randomizeWordCapitalization"), TRUE)
       THEN Flag("--randomize-word-case")
       ELSE Flag("--no-randomize-word-case") >>

PassphraseArgs(p) ==
    << Flag("--use-words"),
       Flag("--word-count"),
       Val(IntToString(sanitizeNumber(Get(p, "wordCount"), "wordCount"))),
       Flag("--word-separator"), Val(sanitizeSeparator(Get(p, "wordSeparator"))),
       Flag("--passphrase-digit-count"),
       Val(IntToString(sanitizeNumber(Get(p, "passphraseDigitCount"),
                                      "passphraseDigitCount"))),
       Flag("--passphrase-special-count"),
       Val(IntToString(sanitizeNumber(Get(p, "passphraseSpecialCount"),
                                      "passphraseSpecialCount"))),
       Flag("--passphrase-mixed-count"),
       Val(IntToString(sanitizeNumber(Get(p, "passphraseMixedCount"),
                                      "passphraseMixedCount"))),
       IF sanitizeBoolean(Get(p, "randomizeWordCapitalization"), TRUE)
       THEN Flag("--randomize-word-case")
       ELSE Flag("--no-randomize-word-case") >>

\* await request.json(), and the catch around it.
PostParsed(r) ==
    IF r.body.kind = "invalid"
    THEN [r EXCEPT !.pc = "done", !.response = ErrorResponse(InvalidJsonMsg, 400),
                   !.responses = @ + 1]
    ELSE [r EXCEPT !.pc = "parsed"]

\* A faulty variant of PostValidated: the generator is started before the count check.
PostValidatedSpawnsFirst(r) ==
    LET p == r.body IN
    IF p.kind = "null" THEN [r EXCEPT !.pc = "done", !.response = Threw]
    ELSE IF ModeOf(p) = "characters"
    THEN IF CountsExceedLength(sanitizeNumber(Get(p, "length"), "length"),
                               sanitizeNumber(Get(p, "specialCount"), "specialCount"),
                               sanitizeNumber(Get(p, "digitCount"), "digitCount"),
                               sanitizeNumber(Get(p, "mixedCaseCount"), "mixedCaseCount"))
         THEN [r EXCEPT !.pc = "done", !.mode = "characters", !.checked = TRUE,
                        !.spawns = @ + 1, !.promise = "pending",
                        !.response = ErrorResponse(CountExceedsLengthMsg, 400),
                        !.responses = @ + 1]
         ELSE [r EXCEPT !.pc = "validated", !.mode = "characters", !.checked = TRUE,
                        !.args = CharacterArgs(p)]
    ELSE [r EXCEPT !.pc = "validated", !.mode = "words", !.checked = TRUE,
                   !.args = PassphraseArgs(p)]

\* From the mode test to the last args.push: reading payload.mode throws on
\* null, and the handler has no catch around it.
PostValidated(r) ==
    LET p == r.body IN
    IF p.kind = "null" THEN [r EXCEPT !.pc = "done", !.response = Threw]
    ELSE IF ModeOf(p) = "characters"
    THEN IF CountsExceedLength(sanitizeNumber(Get(p, "length"), "length"),
                               sanitizeNumber(Get(p, "specialCount"), "specialCount"),
                               sanitizeNumber(Get(p, "digitCount"), "digitCount"),
                               sanitizeNumber(Get(p, "mixedCaseCount"), "mixedCaseCount"))
         THEN [r EXCEPT !.pc = "done", !.mode = "characters", !.checked = TRUE,
                        !.response = ErrorResponse(CountExceedsLengthMsg, 400),
                        !.responses = @ + 1]
         ELSE [r EXCEPT !.pc = "validated", !.mode = "characters", !.checked = TRUE,
                        !.args = CharacterArgs(p)]
    ELSE [r EXCEPT !.pc = "validated", !.mode = "words", !.checked = TRUE,
                   !.args = PassphraseArgs(p)]

\* invokePython up to the return of the promise: spawn("python", finalArgs, ...)
\* with empty stdout and stderr buffers.
Spawned(r) ==
    [r EXCEPT !.pc = "running", !.spawns = @ + 1, !.stdout = <<>>, !.stderr = <<>>,
              !.promise = "pending"]

\* resolve(v) and reject(e): only the first call settles the promise.
Resolve(r, v) ==
    IF r.promise = "pending"
    THEN [r EXCEPT !.promise = "resolved", !.value = v, !.settles = @ + 1]
    ELSE r

Reject(r, e) ==
    IF r.promise = "pending"
    THEN [r EXCEPT !.promise = "rejected", !.reason = e, !.settles = @ + 1]
    ELSE r

\* stdout.trim().split(/\r?\n/): the text is cut at every line feed, and one
\* carriage return right before the line feed belongs to the delimiter.
RECURSIVE SplitLines(_)
SplitLines(s) ==
    IF \A i \in 1..Len(s) : s[i] # "\n" THEN <<s>>
    ELSE LET i == CHOOSE k \in 1..Len(s) :
                      s[k] = "\n" /\ \A j \in 1..(k - 1) : s[j] # "\n"
             line == SubSeq(s, 1, i - 1)
             cut == IF line # <<>> /\ line[Len(line)] = "\r"
                    THEN SubSeq(line, 1, Len(line) - 1) ELSE line
         IN  <<cut>> \o SplitLines(SubSeq(s, i + 1, Len(s)))

\* A faulty variant of LastLineIndex: the first line with text is taken.
LastLineIndexFromTop(lines) ==
    IF \E i \in 1..Len(lines) : Trim(lines[i]) # <<>>
    THEN CHOOSE i \in 1..Len(lines) :
             Trim(lines[i]) # <<>> /\ \A j \in 1..(i - 1) : Trim(lines[j]) = <<>>
    ELSE 0

\* lines.reverse().find((line) => line.trim().length > 0), as the index of
\* that line in lines, or 0 when there is none.
LastLineIndex(lines) ==
    IF \E i \in 1..Len(lines) : Trim(lines[i]) # <<>>
    THEN CHOOSE i \in 1..Len(lines) :
             Trim(lines[i]) # <<>> /\ \A j \in (i + 1)..Len(lines) : Trim(lines[j]) = <<>>
    ELSE 0

\* child.stdout.on("data") and child.stderr.on("data")
OnStdout(r, chunk) == [r EXCEPT !.stdout = @ \o chunk, !.chunks = @ + 1]

OnStderr(r, chunk) == [r EXCEPT !.stderr = @ \o chunk, !.chunks = @ + 1]

\* A faulty variant of OnClose: the exit code is not looked at.
OnCloseIgnoresCode(r, code) ==
    LET lines == SplitLines(Trim(r.stdout))
        last == LastLineIndex(lines)
        c == [r EXCEPT !.closed = TRUE, !.exit = code]
    IN  IF last = 0
        THEN Reject(c, [kind |-> "noOutput", text |-> <<>>])
        ELSE Resolve(c, Trim(lines[last]))

\* child.on("close", (code) => ...)
OnClose(r, code) ==
    LET lines == SplitLines(Trim(r.stdout))
        last == LastLineIndex(lines)
        c == [r EXCEPT !.closed = TRUE, !.exit = code]
    IN  IF code = 0
        THEN IF last = 0
             THEN Reject(c, [kind |-> "noOutput", text |-> <<>>])
             ELSE Resolve(c, Trim(lines[last]))
        ELSE IF Trim(r.stderr) # <<>>
             THEN Reject(c, [kind |-> "stderr", text |-> Trim(r.stderr)])
             ELSE Reject(c, [kind |-> "failed", text |-> <<>>])

\* child.on("error", (error) => reject(error))
OnError(r) == Reject([r EXCEPT !.errored = TRUE], [kind |-> "spawn", text |-> <<>>])

\* A faulty variant of PostResponded: whatever the promise holds is returned.
PostRespondedAlwaysPassword(r) ==
    [r EXCEPT !.pc = "done", !.response = PasswordResponse(r.value),
              !.responses = @ + 1]

\* A faulty variant of PostResponded: the response tells why the generator failed.
PostRespondedLeaksReason(r) ==
    IF r.promise = "resolved"
    THEN [r EXCEPT !.pc = "done", !.response = PasswordResponse(r.value),
                   !.responses = @ + 1]
    ELSE [r EXCEPT !.pc = "done", !.response = ErrorResponse(r.reason.kind, 500),
                   !.responses = @ + 1]

\* The try/catch around await invokePython(args).
PostResponded(r) ==
    IF r.promise = "resolved"
    THEN [r EXCEPT !.pc = "done", !.response = PasswordResponse(r.value),
                   !.responses = @ + 1]
    ELSE [r EXCEPT !.pc = "done", !.response = ErrorResponse(UnableMsg, 500),
                   !.responses = @ + 1]

-----------------------------------------------------------------------------
(* The requests the model sends to POST *)

LengthRaw == {Undefined, JInt(1), JInt(10), JInt(300), JStr(<<"8", ".", "5">>)}

SpecialRaw == {Undefined, JInt(2), JInt(100), JNum(TenthsNum(25))}

DigitRaw == {Undefined, JInt(0), JStr(<<"7", "x">>), Null}

MixedRaw == {Undefined, JInt(0), JInt(200), JStr(<<"a", "b", "c">>)}

\* mode and excludeAmbiguous as a client leaves them out and as the form sends them.
CharacterTags ==
    { [mode |-> Undefined, excludeAmbiguous |-> Undefined],
      [mode |-> JStr(CharactersStr), excludeAmbiguous |-> JBool(TRUE)],
      [mode |-> JStr(<<"x">>), excludeAmbiguous |-> JBool(FALSE)] }

CharacterBodies ==
    { ObjectBody([mode |-> tag.mode, excludeAmbiguous |-> tag.excludeAmbiguous,
                  length |-> l, specialCount |-> sc, digitCount |-> dc,
                  mixedCaseCount |-> mc]) :
        tag \in CharacterTags, l \in LengthRaw, sc \in SpecialRaw,
        dc \in DigitRaw, mc \in MixedRaw }

WordCountRaw == {Undefined, JInt(1), JInt(3), JStr(<<"1", "7">>)}

SeparatorRaw ==
    {Undefined, JInt(5), JStr(<<>>), JStr(<<" ">>), JStr(<<"-">>), JStr(<<" ", "_">>),
     JStr(<<"+">>), JStr(<<"a", " ", "b">>), JStr(<<".", ":", "|", "~", "Z">>),
     JStr(<<"a", "b", "c", "d", "e", "f">>)}

RandomizeRaw ==
    {Undefined, JBool(FALSE), JStr(<<"f", "a", "l", "s", "e">>), JStr(<<"n", "o">>)}

SuffixRaw ==
    { [d |-> Undefined, s |-> Undefined, m |-> Undefined],
      [d |-> JInt(0), s |-> JInt(0), m |-> JInt(0)],
      [d |-> JInt(33), s |-> JInt(0 - 1), m |-> JStr(<<"5">>)],
      [d |-> JNum(TenthsNum(25)), s |-> JStr(<<"x">>), m |-> JInt(64)] }

PassphraseBodies ==
    { ObjectBody([mode |-> JStr(WordsStr), excludeAmbiguous |-> ex,
                  wordCount |-> wc, wordSeparator |-> sep,
                  randomizeWordCapitalization |-> rz,
                  passphraseDigitCount |-> sx.d, passphraseSpecialCount |-> sx.s,
                  passphraseMixedCount |-> sx.m]) :
        ex \in {Undefined, JBool(TRUE)}, wc \in WordCountRaw, sep \in SeparatorRaw,
        rz \in RandomizeRaw, sx \in SuffixRaw }

\* The lengths of the string and array bodies.
SizedLen == 8

OtherBodies ==
    {InvalidBody, NullBody, PrimitiveBody, SizedBody("string", SizedLen),
     SizedBody("array", SizedLen + 12)}

\* What the form sends from its initial state, in either mode.
DefaultBodies ==
    { ObjectBody([mode |-> JStr(CharactersStr), length |-> JInt(16),
                  specialCount |-> JInt(2), digitCount |-> JInt(2),
                  mixedCaseCount |-> JInt(6), excludeAmbiguous |-> JBool(FALSE)]),
      ObjectBody([mode |-> JStr(WordsStr), wordCount |-> JInt(4),
                  wordSeparator |-> JStr(<<"-">>), passphraseDigitCount |-> JInt(2),
                  passphraseSpecialCount |-> JInt(1), passphraseMixedCount |-> JInt(2),
                  randomizeWordCapitalization |-> JBool(TRUE),
                  excludeAmbiguous |-> JBool(FALSE)]) }

\* Passphrase requests that differ in randomizeWordCapitalization alone.
RandomizeBodies ==
    { ObjectBody([mode |-> JStr(WordsStr), randomizeWordCapitalization |-> rz]) :
        rz \in {JBool(TRUE), JStr(<<"t", "r", "u", "e">>), JStr(<<"F", "a", "l", "s", "e">>),
                JStr(<<" ", "f", "a", "l", "s", "e">>), Null, JInt(0)} }

Bodies ==
    CharacterBodies \cup PassphraseBodies \cup OtherBodies \cup DefaultBodies
      \cup RandomizeBodies

\* What a child process may write in one chunk.
StdoutChunks == { <<"p", "w", "\n">>, <<" ", "q", "1", " ", "\r", "\n">>, <<"\n">> }

StderrChunks == { <<"E", "r", "r", "\n">> }

ExitCodes == {0, 1}

\* At most this many data events per child.
MaxChunks == 2

-----------------------------------------------------------------------------
(* State outside the route; the form is modelled further below *)

InitGen ==
    [ran |-> FALSE, failed |-> FALSE, wordList |-> <<>>, words |-> <<>>,
     suffix |-> <<>>, output |-> <<>>]

\* Two invocations of POST that overlap in time.
Calls == {1, 2}

\* A child process: the argv it was spawned with and what it has written.
NoChild == [argv |-> <<>>, out |-> <<>>, err |-> <<>>]

\* Every invocation has its own payload, mode and args (locals of POST), and
\* its own child, stdout, stderr and promise (locals of invokePython).
InitCalls == [i \in Calls |-> [r |-> InitReq, child |-> NoChild]]

\* No call of shuffle is under way.
NoShuffle == [input |-> <<>>, results |-> <<>>, output |-> <<>>, done |-> FALSE]

\* No value is being put to sanitizeNumber on its own.
NoProbe ==
    [key |-> "length", value |-> NaN, asNumber |-> 0, asString |-> 0, done |-> FALSE]

-----------------------------------------------------------------------------
(* The route's actions *)

\* A request arrives and POST starts to read its body.
Receive ==
    /\ req.pc = "idle"
    /\ \E b \in Bodies : req' = [InitReq EXCEPT !.pc = "received", !.body = b]
    /\ UNCHANGED <<gen, form, ui, storage, served, calls, shuffling, probing>>

PostParse ==
    /\ req.pc = "received"
    /\ req' = PostParsed(req)
    /\ UNCHANGED <<gen, form, ui, storage, served, calls, shuffling, probing>>

PostValidate ==
    /\ req.pc = "parsed"
    /\ req' = PostValidated(req)
    /\ UNCHANGED <<gen, form, ui, storage, served, calls, shuffling, probing>>

InvokePython ==
    /\ req.pc = "validated"
    /\ req' = Spawned(req)
    /\ UNCHANGED <<gen, form, ui, storage, served, calls, shuffling, probing>>

ChildAlive == req.spawns > 0 /\ ~req.closed /\ req.pc \in {"running", "done"}

StdoutData ==
    /\ ChildAlive /\ req.chunks < MaxChunks
    /\ \E c \in StdoutChunks : req' = OnStdout(req, c)
    /\ UNCHANGED <<gen, form, ui, storage, served, calls, shuffling, probing>>

StderrData ==
    /\ ChildAlive /\ req.chunks < MaxChunks
    /\ \E c \in StderrChunks : req' = OnStderr(req, c)
    /\ UNCHANGED <<gen, form, ui, storage, served, calls, shuffling, probing>>

ChildClose ==
    /\ ChildAlive
    /\ \E code \in ExitCodes : req' = OnClose(req, code)
    /\ UNCHANGED <<gen, form, ui, storage, served, calls, shuffling, probing>>

\* The process could not be spawned, or failed otherwise: Node emits "error",
\* and "close" may still follow.
ChildError ==
    /\ ChildAlive /\ ~req.errored
    /\ req' = OnError(req)
    /\ UNCHANGED <<gen, form, ui, storage, served, calls, shuffling, probing>>

\* The await of invokePython resumes once its promise is settled.
PostRespond ==
    /\ req.pc = "running" /\ req.promise \in {"resolved", "rejected"}
    /\ req' = PostResponded(req)
    /\ UNCHANGED <<gen, form, ui, storage, served, calls, shuffling, probing>>

\* The invocation is over; the route serves the next request.
NextRequest ==
    /\ req.pc = "done"
    /\ req' = InitReq
    /\ gen' = InitGen
    /\ UNCHANGED <<form, ui, storage, served, calls, shuffling, probing>>

-----------------------------------------------------------------------------
(* PasswordGeneratorForm.tsx: state *)

CHARACTER_DEFAULTS ==
    [length |-> 16, specialCount |-> 2, digitCount |-> 2, mixedCaseCount |-> 6,
     excludeAmbiguous |-> FALSE]

PASSPHRASE_DEFAULTS ==
    [wordCount |-> 4, wordSeparator |-> <<"-">>, passphraseDigitCount |-> 2,
     passphraseSpecialCount |-> 1, passphraseMixedCount |-> 2,
     randomizeWordCapitalization |-> TRUE, excludeAmbiguous |-> FALSE]

\* The 10 of [data.password, ...prev].slice(0, 10).
HistoryLimit == 10

\* A string | null state: errorMessage.
NoMessage == [isNull |-> TRUE, msg |-> ""]

Message(m) == [isNull |-> FALSE, msg |-> m]

\* The useState initial values.
InitForm ==
    [mode |-> "characters",
     characterState |-> CHARACTER_DEFAULTS,
     passphraseState |-> PASSPHRASE_DEFAULTS,
     isSubmitting |-> FALSE,
     generatedPassword |-> Null,
     errorMessage |-> NoMessage,
     copied |-> FALSE,
     passwordHistory |-> <<>>,
     showHistory |-> FALSE,
     showQR |-> FALSE]

\* The page: whether the component is mounted, the bodies of the fetches of
\* handleSubmit that have not settled yet, in the order they were sent, and
\* how often the user has submitted and reloaded.
InitUi ==
    [mounted |-> FALSE, pending |-> <<>>, submits |-> 0, reloads |-> 0]

\* sessionStorage holds no "passwordHistory" item when the session begins.
NoItem == [present |-> FALSE, items |-> <<>>]

\* JSON.stringify of an array: an undefined element is written as null.
JsonStringify(h) ==
    [present |-> TRUE,
     items |-> [i \in 1..Len(h) |-> IF h[i].t = "undefined" THEN Null ELSE h[i]]]

\* JSON.parse of a stored array text.
JsonParse(item) == item.items

\* JSON.stringify(mode === "characters" ? { mode, ...characterState }
\*                                      : { mode, ...passphraseState })
FormBody(f) ==
    IF f.mode = "characters"
    THEN ObjectBody([mode |-> JStr(CharactersStr),
                     length |-> JInt(f.characterState.length),
                     specialCount |-> JInt(f.characterState.specialCount),
                     digitCount |-> JInt(f.characterState.digitCount),
                     mixedCaseCount |-> JInt(f.characterState.mixedCaseCount),
                     excludeAmbiguous |-> JBool(f.characterState.excludeAmbiguous)])
    ELSE ObjectBody([mode |-> JStr(WordsStr),
                     wordCount |-> JInt(f.passphraseState.wordCount),
                     wordSeparator |-> JStr(f.passphraseState.wordSeparator),
                     passphraseDigitCount |-> JInt(f.passphraseState.passphraseDigitCount),
                     passphraseSpecialCount |->
                         JInt(f.passphraseState.passphraseSpecialCount),
                     passphraseMixedCount |-> JInt(f.passphraseState.passphraseMixedCount),
                     randomizeWordCapitalization |->
                         JBool(f.passphraseState.randomizeWordCapitalization),
                     excludeAmbiguous |-> JBool(f.passphraseState.excludeAmbiguous)])

-----------------------------------------------------------------------------
(* The route as one specification *)

Init ==
    /\ req = InitReq
    /\ gen = InitGen
    /\ form = InitForm
    /\ ui = InitUi
    /\ storage = NoItem
    /\ served = <<>>
    /\ calls = InitCalls
    /\ shuffling = NoShuffle
    /\ probing = NoProbe

Next ==
    \/ Receive
    \/ PostParse
    \/ PostValidate
    \/ InvokePython
    \/ StdoutData
    \/ StderrData
    \/ ChildClose
    \/ ChildError
    \/ PostRespond
    \/ NextRequest

Spec == Init /\ [][Next]_vars

-----------------------------------------------------------------------------
(* Reading the argv of the spawned generator *)

HasFlag(args, name) == \E i \in 1..Len(args) : args[i] = Flag(name)

\* The element that follows the flag.
ArgValue(args, name) ==
    LET i == CHOOSE k \in 1..(Len(args) - 1) : args[k] = Flag(name)
    IN  args[i + 1].str

IsDecimal(s) == s # <<>> /\ \A i \in 1..Len(s) : s[i] \in Digits

\* The flag is followed by the decimal text of an integer within [lo, hi].
ArgInRange(args, name, lo, hi) ==
    /\ \E k \in 1..(Len(args) - 1) : args[k] = Flag(name)
    /\ IsDecimal(ArgValue(args, name))
    /\ DigitsToInt(ArgValue(args, name)) >= lo
    /\ DigitsToInt(ArgValue(args, name)) <= hi

ArgInt(args, name) == DigitsToInt(ArgValue(args, name))

\* The body is an object whose mode selects character generation.
IsCharacterRequest(b) == b.kind = "object" /\ b.f["mode"] # JStr(WordsStr)

IsPassphraseRequest(b) == b.kind = "object" /\ b.f["mode"] = JStr(WordsStr)

CountErrorResponse ==
    [kind |-> "json", status |-> 400, hasPassword |-> FALSE, password |-> <<>>,
     hasError |-> TRUE,
     error |-> "Sum of selected character counts cannot exceed total length."]

-----------------------------------------------------------------------------
(* C1 *)

CountKeys == {"specialCount", "digitCount", "mixedCaseCount"}

AllRequestedAsNumbers(b) ==
    \A k \in CountKeys \cup {"length"} : b.f[k].t = "number"

\* The counts and the length as the request states them, in tenths.
RequestedExceeds(b) ==
    b.f["specialCount"].num.n10 + b.f["digitCount"].num.n10
        + b.f["mixedCaseCount"].num.n10 > b.f["length"].num.n10

\* The counts and the length after sanitizeNumber.
SanitizedExceeds(b) ==
    sanitizeNumber(Get(b, "specialCount"), "specialCount")
        + sanitizeNumber(Get(b, "digitCount"), "digitCount")
        + sanitizeNumber(Get(b, "mixedCaseCount"), "mixedCaseCount")
      > sanitizeNumber(Get(b, "length"), "length")

\* C1 as stated: a character-mode request whose requested counts sum to more
\* than its requested length never reaches the generator, and is answered
\* with the count-exceeds-length error (status 400, no password).
C1_AsStated ==
    (IsCharacterRequest(req.body) /\ AllRequestedAsNumbers(req.body)
        /\ RequestedExceeds(req.body))
    => /\ req.spawns = 0
       /\ req.pc = "done" => req.response = CountErrorResponse

\* C1 as amended: a character-mode request whose counts, after sanitisation
\* (clamping to the field's bounds, the default for a non-integer), sum to
\* more than its sanitised length never reaches the generator and is answered
\* with the count-exceeds-length error (status 400, no password).
C1_SanitizedCountsRejected ==
    (req.body.kind \in {"object", "primitive", "string", "array"}
        /\ ModeOf(req.body) = "characters" /\ SanitizedExceeds(req.body))
    => /\ req.spawns = 0 /\ req.args = <<>>
       /\ req.pc = "done" => req.response = CountErrorResponse

\* A request whose length was clamped up to the minimum is rejected for its counts.
C1_Witness ==
    /\ req.pc = "done" /\ req.response = CountErrorResponse
    /\ IsCharacterRequest(req.body)
    /\ req.body.f["length"] = JInt(1)
    /\ req.body.f["specialCount"] = JInt(100)

-----------------------------------------------------------------------------
(* C2 *)

\* A body the form can send: mode and excludeAmbiguous set, integers within
\* the limits of their fields.
FormCanSend(b) ==
    /\ b.kind = "object"
    /\ b.f["excludeAmbiguous"].t = "boolean"
    /\ \/ /\ b.f["mode"] = JStr(CharactersStr)
          /\ \A k \in CountKeys \cup {"length"} :
                /\ b.f[k].t = "number" /\ NumberIsInteger(b.f[k].num)
                /\ b.f[k].num.n10 >= 10 * LIMITS[k].min
                /\ b.f[k].num.n10 <= 10 * LIMITS[k].max
       \/ /\ b.f["mode"] = JStr(WordsStr)
          /\ b.f["wordSeparator"].t = "string"
          /\ Len(b.f["wordSeparator"].str) <= 5
          /\ b.f["randomizeWordCapitalization"].t = "boolean"
          /\ \A k \in {"wordCount", "passphraseDigitCount", "passphraseSpecialCount",
                       "passphraseMixedCount"} :
                /\ b.f[k].t = "number" /\ NumberIsInteger(b.f[k].num)
                /\ b.f[k].num.n10 >= 10 * LIMITS[k].min
                /\ b.f[k].num.n10 <= 10 * LIMITS[k].max

\* C2 as stated: when a request of the form carries excludeAmbiguous = true,
\* the generator is invoked with --exclude-ambiguous, in either mode.
C2_AsStated ==
    (req.spawns > 0 /\ FormCanSend(req.body)
        /\ req.body.f["excludeAmbiguous"] = JBool(TRUE))
    => HasFlag(req.args, "--exclude-ambiguous")

-----------------------------------------------------------------------------
(* C4 *)

\* C4 as stated: once POST is over it has produced exactly one JSON response:
\* a password with status 200, or an error with status 400 (unparseable JSON,
\* counts above the length) or 500, and never a password and an error together.
C4_AsStated ==
    req.pc = "done"
    => /\ req.response.kind = "json"
       /\ req.responses = 1
       /\ \/ /\ req.response.status = 200
             /\ req.response.hasPassword /\ ~req.response.hasError
          \/ /\ req.response.status = 400
             /\ req.response.hasError /\ ~req.response.hasPassword
             /\ req.spawns = 0
          \/ /\ req.response.status = 500
             /\ req.response.hasError /\ ~req.response.hasPassword

-----------------------------------------------------------------------------
(* C5 *)

\* C5: whenever the generator has been spawned, each numeric argument is the
\* decimal text of an integer within the configured bounds of its field, and
\* in character mode the three counts sum to at most the length.
C5_ValidatedArgs ==
    req.spawns > 0
    => IF req.mode = "characters"
       THEN /\ ArgInRange(req.args, "--length", 4, 256)
            /\ ArgInRange(req.args, "--special-count", 0, 64)
            /\ ArgInRange(req.args, "--digit-count", 0, 64)
            /\ ArgInRange(req.args, "--mixed-case-count", 0, 128)
            /\ ArgInt(req.args, "--special-count") + ArgInt(req.args, "--digit-count")
                 + ArgInt(req.args, "--mixed-case-count") <= ArgInt(req.args, "--length")
       ELSE /\ ArgInRange(req.args, "--word-count", 2, 16)
            /\ ArgInRange(req.args, "--passphrase-digit-count", 0, 32)
            /\ ArgInRange(req.args, "--passphrase-special-count", 0, 32)
            /\ ArgInRange(req.args, "--passphrase-mixed-count", 0, 64)

\* The generator runs for a request whose length and counts were all clamped.
C5_Witness ==
    /\ req.spawns = 1 /\ req.mode = "characters"
    /\ req.body.f["length"] = JInt(300)
    /\ req.body.f["specialCount"] = JInt(100)
    /\ req.body.f["mixedCaseCount"] = JInt(200)
    /\ ArgValue(req.args, "--length") = <<"2", "5", "6">>

-----------------------------------------------------------------------------
(* C6 *)

\* Letters, digits, underscore and - . : | ~
NarrowSafeSet == Letters \cup Digits \cup {"_", "-", ".", ":", "|", "~"}

HasUnsafeChar(s) == \E i \in 1..Len(s) : s[i] \notin NarrowSafeSet

-----------------------------------------------------------------------------
(* C7 *)

\* C7: the generator is spawned at most once per request, only once the
\* sanitisation and the count check are done and passed, and a request
\* answered with status 400 never had a generator spawned.
C7_ValidationBeforeSpawn ==
    /\ req.spawns <= 1
    /\ req.response.status = 400 => (req.spawns = 0 /\ req.promise = "none")
    /\ req.spawns > 0
       => /\ req.checked
          /\ req.pc \in {"running", "done"}
          /\ req.mode = "characters" => ~SanitizedExceeds(req.body)

\* A count error was answered after the check and without a generator.
C7_Witness ==
    /\ req.pc = "done" /\ req.checked /\ req.response.status = 400
    /\ req.spawns = 0

-----------------------------------------------------------------------------
(* C10 *)

DocumentedDefaults ==
    [length |-> 16, specialCount |-> 2, digitCount |-> 2, mixedCaseCount |-> 6,
     wordCount |-> 4, passphraseDigitCount |-> 2, passphraseSpecialCount |-> 1,
     passphraseMixedCount |-> 2]

FlagFor ==
    [length |-> "--length", specialCount |-> "--special-count",
     digitCount |-> "--digit-count", mixedCaseCount |-> "--mixed-case-count",
     wordCount |-> "--word-count", passphraseDigitCount |-> "--passphrase-digit-count",
     passphraseSpecialCount |-> "--passphrase-special-count",
     passphraseMixedCount |-> "--passphrase-mixed-count"]

KeysOfMode(m) ==
    IF m = "characters" THEN CountKeys \cup {"length"}
    ELSE {"wordCount", "passphraseDigitCount", "passphraseSpecialCount",
          "passphraseMixedCount"}

StripSign(s) == IF s # <<>> /\ Head(s) \in {"-", "+"} THEN Tail(s) ELSE s

\* The text of an integer: an optional sign and digits, within white space.
IsIntegerString(s) == IsDecimal(StripSign(Trim(s)))

\* Text that begins, after white space and an optional sign, with a digit.
LeadsWithInteger(s) ==
    StripSign(TrimStart(s)) # <<>> /\ Head(StripSign(TrimStart(s))) \in Digits

IsIntegerNumber(v) == v.t = "number" /\ ~v.num.nan /\ v.num.n10 % 10 = 0

\* The parts of C10 that do not depend on what counts as a non-integer.
C10_OtherDefaults ==
    /\ (req.spawns > 0 /\ req.mode = "words")
       => /\ Get(req.body, "wordSeparator") = Undefined
             => ArgValue(req.args, "--word-separator") = <<"-">>
          /\ Get(req.body, "randomizeWordCapitalization") = Undefined
             => HasFlag(req.args, "--randomize-word-case")
    /\ (req.body \in DefaultBodies /\ req.pc \in {"validated", "running", "done"})
       => (req.spawns + (IF req.pc = "validated" THEN 1 ELSE 0) = 1
           /\ req.response.status # 400)

-----------------------------------------------------------------------------
(* The generator the route spawns (password_generator.py), in passphrase    *)
(* mode, after sections 3, 4.3 and 4.5 of the specification                 *)

\* Every result of the random source is one of the first RandWidth indices.
RandWidth == 2

RandomDraws == 0..(RandWidth - 1)

\* uniformIndex(n), for the draw d of the random source.
UniformIndex(n, d) == d % n

LowerPool ==
    <<"a", "b", "c", "d", "e", "f", "g", "h", "i", "j", "k", "l", "m",
      "n", "o", "p", "q", "r", "s", "t", "u", "v", "w", "x", "y", "z">>

UpperPool ==
    <<"A", "B", "C", "D", "E", "F", "G", "H", "I", "J", "K", "L", "M",
      "N", "O", "P", "Q", "R", "S", "T", "U", "V", "W", "X", "Y", "Z">>

DigitPool == <<"0", "1", "2", "3", "4", "5", "6", "7", "8", "9">>

SpecialPool == <<"$", "%", "^", "@", "!", "&", "*">>

AmbiguousChars == {"l", "1", "I", "O", "0"}

\* A pool with the ambiguous characters removed when exclusion is on.
Pool(base, excludeAmbiguous) ==
    IF excludeAmbiguous
    THEN SelectSeq(base, LAMBDA c : c \notin AmbiguousChars)
    ELSE base

ToUpper(c) ==
    IF \E i \in 1..Len(LowerPool) : LowerPool[i] = c
    THEN UpperPool[CHOOSE i \in 1..Len(LowerPool) : LowerPool[i] = c]
    ELSE c

\* What the word list file may hold: the shipped list (cut to two words for
\* the model), the same with white space, a repeated word and empty lines,
\* a file of blank lines, and an empty file.
WordListSources ==
    { <<"a", "b", "\n", "c", "\n">>,
      <<" ", "a", "b", " ", "\r", "\n", "\n", "a", "b", "\n", "c">>,
      <<"\n", " ", "\n">>,
      <<>> }

\* The elements of s without their repetitions, in first-seen order.
RECURSIVE Dedupe(_)
Dedupe(s) ==
    IF s = <<>> THEN <<>>
    ELSE LET front == Dedupe(SubSeq(s, 1, Len(s) - 1))
             last == s[Len(s)]
         IN  IF \E i \in 1..Len(front) : front[i] = last THEN front
             ELSE Append(front, last)

\* WordListLoader.load: the lines of the source, trimmed, without the empty
\* ones and without repetitions.
LoadWordList(source) ==
    LET lines == SplitLines(source)
        trimmed == [i \in 1..Len(lines) |-> Trim(lines[i])]
    IN  Dedupe(SelectSeq(trimmed, LAMBDA w : w # <<>>))

\* The word lists the generator may work with.
WordLists == { LoadWordList(source) : source \in WordListSources }

\* The configuration the command line hands to the generator.
GenConfig(args) ==
    [useWords |-> HasFlag(args, "--use-words"),
     excludeAmbiguous |-> HasFlag(args, "--exclude-ambiguous"),
     wordCount |-> ArgInt(args, "--word-count"),
     separator |-> ArgValue(args, "--word-separator"),
     digitCount |-> ArgInt(args, "--passphrase-digit-count"),
     specialCount |-> ArgInt(args, "--passphrase-special-count"),
     mixedCount |-> ArgInt(args, "--passphrase-mixed-count"),
     randomize |-> HasFlag(args, "--randomize-word-case")]

\* Everything one passphrase generation draws from the random source.
RandomRuns(cfg) ==
    [word    : [1..cfg.wordCount -> RandomDraws],
     cap     : [1..(IF cfg.randomize THEN cfg.wordCount ELSE 0) -> RandomDraws],
     special : [1..cfg.specialCount -> RandomDraws],
     digit   : [1..cfg.digitCount -> RandomDraws],
     letter  : [1..cfg.mixedCount -> RandomDraws],
     flip    : [1..cfg.mixedCount -> 0..1],
     shuffle : [1..Max(cfg.specialCount + cfg.digitCount + cfg.mixedCount - 1, 0)
                  -> RandomDraws]]

\* A faulty variant of Shuffle: a position is never paired with itself.
RECURSIVE ShuffleNeverInPlace(_, _)
ShuffleNeverInPlace(s, draws) ==
    IF Len(s) <= 1 THEN s
    ELSE LET n == Len(s)
             j == UniformIndex(n - 1, Head(draws)) + 1
             swapped == [s EXCEPT ![n] = s[j], ![j] = s[n]]
         IN  ShuffleNeverInPlace(SubSeq(swapped, 1, n - 1), Tail(draws)) \o <<swapped[n]>>

\* shuffle(sequence): Fisher-Yates from the last position down; the k-th
\* draw picks the partner of position Len(s) - k + 1.
RECURSIVE Shuffle(_, _)
Shuffle(s, draws) ==
    IF Len(s) <= 1 THEN s
    ELSE LET n == Len(s)
             j == UniformIndex(n, Head(draws)) + 1
             swapped == [s EXCEPT ![n] = s[j], ![j] = s[n]]
         IN  Shuffle(SubSeq(swapped, 1, n - 1), Tail(draws)) \o <<swapped[n]>>

\* One letter of the word, at a position drawn uniformly, is made upper case.
Capitalize(word, d) ==
    [word EXCEPT ![UniformIndex(Len(word), d) + 1] = ToUpper(@)]

\* The words of section 4.5, steps 1 and 2.
DrawWords(cfg, wordList, rnd) ==
    [i \in 1..cfg.wordCount |->
        LET w == wordList[UniformIndex(Len(wordList), rnd.word[i]) + 1]
        IN  IF cfg.randomize THEN Capitalize(w, rnd.cap[i]) ELSE w]

\* Step 3: the separator goes between adjacent words only.
RECURSIVE Join(_, _)
Join(words, separator) ==
    IF words = <<>> THEN <<>>
    ELSE IF Len(words) = 1 THEN words[1]
    ELSE words[1] \o separator \o Join(Tail(words), separator)

\* Step 4: the suffix is composed by category and then shuffled.
DrawSuffix(cfg, rnd) ==
    LET specials == Pool(SpecialPool, cfg.excludeAmbiguous)
        digits == Pool(DigitPool, cfg.excludeAmbiguous)
        letters == Pool(LowerPool, cfg.excludeAmbiguous)
        sp == [i \in 1..cfg.specialCount |->
                  specials[UniformIndex(Len(specials), rnd.special[i]) + 1]]
        dg == [i \in 1..cfg.digitCount |->
                  digits[UniformIndex(Len(digits), rnd.digit[i]) + 1]]
        mx == [i \in 1..cfg.mixedCount |->
                  LET c == letters[UniformIndex(Len(letters), rnd.letter[i]) + 1]
                  IN  IF rnd.flip[i] = 1 THEN ToUpper(c) ELSE c]
    IN  Shuffle(sp \o dg \o mx, rnd.shuffle)

GeneratePassphrase(cfg, wordList, rnd) ==
    LET words == DrawWords(cfg, wordList, rnd)
        suffix == DrawSuffix(cfg, rnd)
    IN  [ran |-> TRUE, failed |-> FALSE, wordList |-> wordList, words |-> words,
         suffix |-> suffix, output |-> Join(words, cfg.separator) \o suffix]

\* EmptyWordList: nothing is generated.
EmptyWordListFailure ==
    [ran |-> TRUE, failed |-> TRUE, wordList |-> <<>>, words |-> <<>>,
     suffix |-> <<>>, output |-> <<>>]

EmptyWordListText == <<"E", "m", "p", "t", "y", "W", "o", "r", "d", "L", "i", "s", "t", "\n">>

-----------------------------------------------------------------------------
(* The route with the generator as its child process *)

SmallSuffixRaw ==
    { [d |-> JInt(0), s |-> JInt(0), m |-> JInt(0)],
      [d |-> JInt(1), s |-> JInt(1), m |-> JInt(0)],
      [d |-> JInt(0), s |-> JInt(0 - 3), m |-> JInt(1)] }

\* Passphrase requests small enough for every run of the generator to be explored.
GeneratorBodies ==
    { ObjectBody([mode |-> JStr(WordsStr), excludeAmbiguous |-> JBool(FALSE),
                  wordCount |-> wc, wordSeparator |-> sep,
                  randomizeWordCapitalization |-> rz,
                  passphraseDigitCount |-> sx.d, passphraseSpecialCount |-> sx.s,
                  passphraseMixedCount |-> sx.m]) :
        wc \in {JInt(1), JInt(3)},
        sep \in {Undefined, JStr(<<>>), JStr(<<"-">>), JStr(<<"_">>), JStr(<<".", ":">>),
                 JStr(<<"a">>)},
        rz \in {JBool(TRUE), JBool(FALSE)},
        sx \in SmallSuffixRaw }

ReceiveSmall ==
    /\ req.pc = "idle"
    /\ \E b \in GeneratorBodies : req' = [InitReq EXCEPT !.pc = "received", !.body = b]
    /\ UNCHANGED <<gen, form, ui, storage, served, calls, shuffling, probing>>

\* The child loads its word list, generates and prints the passphrase on a
\* line of its own, or reports an empty word list on stderr.
GeneratorRun ==
    /\ req.pc = "running" /\ ~gen.ran /\ req.mode = "words"
    /\ \E wordList \in WordLists :
        IF wordList = <<>>
        THEN /\ gen' = EmptyWordListFailure
             /\ req' = OnStderr(req, EmptyWordListText)
        ELSE \E rnd \in RandomRuns(GenConfig(req.args)) :
             /\ gen' = GeneratePassphrase(GenConfig(req.args), wordList, rnd)
             /\ req' = OnStdout(req, gen'.output \o <<"\n">>)
    /\ UNCHANGED <<form, ui, storage, served, calls, shuffling, probing>>

\* The child exits: 0 after printing, 1 after a failure.
GeneratorExit ==
    /\ req.pc = "running" /\ gen.ran /\ ~req.closed
    /\ req' = OnClose(req, IF gen.failed THEN 1 ELSE 0)
    /\ UNCHANGED <<gen, form, ui, storage, served, calls, shuffling, probing>>

-----------------------------------------------------------------------------
(* The generator in character mode, after sections 3 and 4.4 of the *)
(* specification, as the child process of the route                 *)

\* The character configuration the command line hands to the generator.
CharConfig(args) ==
    [length |-> ArgInt(args, "--length"),
     specialCount |-> ArgInt(args, "--special-count"),
     digitCount |-> ArgInt(args, "--digit-count"),
     mixedCaseCount |-> ArgInt(args, "--mixed-case-count"),
     excludeAmbiguous |-> HasFlag(args, "--exclude-ambiguous")]

\* The characters of the lowercase filler.
FillerCount(cfg) == cfg.length - (cfg.specialCount + cfg.digitCount + cfg.mixedCaseCount)

\* Everything one character generation draws from the random source.
CharacterRuns(cfg) ==
    [special : [1..cfg.specialCount -> RandomDraws],
     digit   : [1..cfg.digitCount -> RandomDraws],
     letter  : [1..cfg.mixedCaseCount -> RandomDraws],
     flip    : [1..cfg.mixedCaseCount -> 0..1],
     filler  : [1..FillerCount(cfg) -> RandomDraws],
     shuffle : [1..(cfg.length - 1) -> RandomDraws]]

\* Section 4.4: the characters of each category are drawn, concatenated in
\* the order special, digit, mixed case, filler, and the whole is shuffled.
ComposeCharacters(cfg, rnd) ==
    LET specials == Pool(SpecialPool, cfg.excludeAmbiguous)
        digits == Pool(DigitPool, cfg.excludeAmbiguous)
        letters == Pool(LowerPool, cfg.excludeAmbiguous)
        sp == [i \in 1..cfg.specialCount |->
                  specials[UniformIndex(Len(specials), rnd.special[i]) + 1]]
        dg == [i \in 1..cfg.digitCount |->
                  digits[UniformIndex(Len(digits), rnd.digit[i]) + 1]]
        mx == [i \in 1..cfg.mixedCaseCount |->
                  LET c == letters[UniformIndex(Len(letters), rnd.letter[i]) + 1]
                  IN  IF rnd.flip[i] = 1 THEN ToUpper(c) ELSE c]
        fl == [i \in 1..FillerCount(cfg) |->
                  letters[UniformIndex(Len(letters), rnd.filler[i]) + 1]]
    IN  sp \o dg \o mx \o fl

GenerateCharacters(cfg, rnd) ==
    [ran |-> TRUE, failed |-> FALSE, wordList |-> <<>>, words |-> <<>>,
     suffix |-> <<>>, output |-> Shuffle(ComposeCharacters(cfg, rnd), rnd.shuffle)]

\* Character requests small enough for every run of the generator to be
\* explored: with and without filler, and one the route rejects.
SmallCharacterBodies ==
    { ObjectBody([mode |-> JStr(CharactersStr), excludeAmbiguous |-> JBool(FALSE),
                  length |-> JInt(n.l), specialCount |-> JInt(n.s),
                  digitCount |-> JInt(n.d), mixedCaseCount |-> JInt(n.m)]) :
        n \in { [l |-> 4, s |-> 1, d |-> 1, m |-> 1],
                [l |-> 4, s |-> 2, d |-> 1, m |-> 1],
                [l |-> 3, s |-> 0, d |-> 0, m |-> 0],
                [l |-> 4, s |-> 2, d |-> 2, m |-> 1] } }

ReceiveSmallCharacters ==
    /\ req.pc = "idle"
    /\ \E b \in SmallCharacterBodies :
           req' = [InitReq EXCEPT !.pc = "received", !.body = b]
    /\ UNCHANGED <<gen, form, ui, storage, served, calls, shuffling, probing>>

\* The child generates a password and prints it on a line of its own.
GeneratorRunCharacters ==
    /\ req.pc = "running" /\ ~gen.ran /\ req.mode = "characters"
    /\ \E rnd \in CharacterRuns(CharConfig(req.args)) :
           /\ gen' = GenerateCharacters(CharConfig(req.args), rnd)
           /\ req' = OnStdout(req, gen'.output \o <<"\n">>)
    /\ UNCHANGED <<form, ui, storage, served, calls, shuffling, probing>>

NextGen ==
    \/ ReceiveSmall
    \/ ReceiveSmallCharacters
    \/ PostParse
    \/ PostValidate
    \/ InvokePython
    \/ GeneratorRun
    \/ GeneratorRunCharacters
    \/ GeneratorExit
    \/ PostRespond
    \/ NextRequest

SpecGen == Init /\ [][NextGen]_vars

-----------------------------------------------------------------------------
(* PasswordGeneratorForm.tsx: effects and handlers *)

CHARACTER_LIMITS ==
    [length |-> [min |-> 4, max |-> 256],
     specialCount |-> [min |-> 0, max |-> 64],
     digitCount |-> [min |-> 0, max |-> 64],
     mixedCaseCount |-> [min |-> 0, max |-> 128]]

\* A faulty variant of clampValue: the upper limit is not applied.
clampValueNoMax(value, min, max) ==
    IF value.nan THEN IntNum(min)
    ELSE TenthsNum(Max(value.n10, 10 * min))

\* clampValue: Math.min(Math.max(value, min), max), min for NaN.
clampValue(value, min, max) ==
    IF value.nan THEN IntNum(min)
    ELSE TenthsNum(Min(Max(value.n10, 10 * min), 10 * max))

\* parseToInt: the fallback for an empty text and for one parseInt rejects.
parseToInt(value, fallback) ==
    IF value = <<>> THEN IntNum(fallback)
    ELSE IF ParseInt(value).nan THEN IntNum(fallback)
    ELSE ParseInt(value)

\* The "Load history" effect: a stored item replaces the history at the next
\* render, through setPasswordHistory(JSON.parse(stored)).
LoadHistory(f, item) ==
    IF item.present THEN [f EXCEPT !.passwordHistory = JsonParse(item)] ELSE f

\* The "Save history" effect of a render whose history is h.
SaveHistory(h) == JsonStringify(h)

\* Mounting: the first render shows the useState values; its effects run in
\* the order of their useEffect calls, so the load effect reads the item
\* before the save effect overwrites it with the empty history; the render
\* the load effect causes has a new history and saves it again.
MountEffects(item) ==
    LET loaded == LoadHistory(InitForm, item)
        saved == SaveHistory(InitForm.passwordHistory)
    IN  [form |-> loaded,
         storage |-> IF item.present THEN SaveHistory(loaded.passwordHistory)
                     ELSE saved]

\* A faulty variant of PushHistory: the new list is not cut.
PushHistoryNoSlice(prev, password) == <<password>> \o prev

\* [data.password, ...prev].slice(0, 10)
PushHistory(prev, password) == Take(<<password>> \o prev, HistoryLimit)

\* A faulty variant of SubmitStarted: the shown password is not cleared.
SubmitStartedKeepsPassword(f) ==
    [f EXCEPT !.isSubmitting = TRUE, !.errorMessage = NoMessage,
              !.copied = FALSE, !.showQR = FALSE]

\* handleSubmit up to the await of fetch.
SubmitStarted(f) ==
    [f EXCEPT !.isSubmitting = TRUE, !.errorMessage = NoMessage,
              !.generatedPassword = Null, !.copied = FALSE, !.showQR = FALSE]

FailedToGenerateMsg == "Failed to generate password."

FailedToFetchMsg == "Failed to fetch"

\* The message of the SyntaxError response.json() throws for a body that
\* is not JSON.
JsonSyntaxMsg == "Unexpected token in JSON"

\* response.ok, and a body response.json() can parse to an object.
Succeeded(response) == response.status = 200 /\ response.kind = "json"

\* data.password of a parsed success body; undefined when it has no such member.
DataPassword(response) ==
    IF response.hasPassword THEN JStr(response.password) ELSE Undefined

\* handleSubmit after the await, for a response: with response.ok the body
\* is parsed, which throws for one that is not JSON; otherwise the error of
\* a JSON body is thrown, or the fixed message when there is none.
SubmitAnswered(f, response) ==
    IF Succeeded(response)
    THEN [f EXCEPT !.generatedPassword = DataPassword(response),
                   !.passwordHistory = PushHistory(@, DataPassword(response)),
                   !.isSubmitting = FALSE]
    ELSE IF response.status = 200
    THEN [f EXCEPT !.errorMessage = Message(JsonSyntaxMsg), !.isSubmitting = FALSE]
    ELSE [f EXCEPT !.errorMessage =
                       Message(IF response.kind = "json" /\ response.hasError
                                  /\ response.error # ""
                               THEN response.error ELSE FailedToGenerateMsg),
                   !.isSubmitting = FALSE]

\* handleSubmit when fetch itself rejects.
SubmitRejected(f) ==
    [f EXCEPT !.errorMessage = Message(FailedToFetchMsg), !.isSubmitting = FALSE]

\* What the generator's process does during a request of the form: what it
\* prints and how it exits. Every password it prints is a new one, the
\* n-th being "p" and the digits of n; the route sees it alone on its line
\* or amid white space and empty lines.
ChildRuns(n) ==
    LET password == <<"p">> \o NatToString(n) IN
    { [out |-> password \o <<"\n">>, err |-> <<>>, code |-> 0],
      [out |-> <<"\n", " ">> \o password \o <<" ", "\r", "\n">>, err |-> <<>>, code |-> 0],
      [out |-> <<>>, err |-> <<"E", "r", "r", "\n">>, code |-> 1] }

\* POST for one body, from the first line to its response.
Serve(body, run) ==
    LET received == [InitReq EXCEPT !.pc = "received", !.body = body]
        validated == PostValidated(PostParsed(received))
    IN  IF validated.pc = "done" THEN validated
        ELSE PostResponded(
                 OnClose(OnStderr(OnStdout(Spawned(validated), run.out), run.err),
                         run.code))

\* What the user may type into the "Password length" input.
TypedLengths == { <<"4">>, <<"1", "6">>, <<>>, <<"9", "9", "9">> }

\* The user submits at most this often, and reloads the page at most this often.
MaxSubmits == 11

MaxReloads == 1

\* The browser loads the page and React mounts the component.
Mount ==
    /\ ~ui.mounted
    /\ form' = MountEffects(storage).form
    /\ storage' = MountEffects(storage).storage
    /\ ui' = [ui EXCEPT !.mounted = TRUE]
    /\ UNCHANGED <<req, gen, served, calls, shuffling, probing>>

\* The user refreshes the page: the component and its state are gone, a
\* fetch in flight is abandoned, and sessionStorage stays.
Reload ==
    /\ ui.mounted /\ ui.reloads < MaxReloads
    /\ form' = InitForm
    /\ ui' = [ui EXCEPT !.mounted = FALSE, !.pending = <<>>, !.reloads = @ + 1]
    /\ UNCHANGED <<req, gen, storage, served, calls, shuffling, probing>>

\* The mode buttons.
SetMode ==
    /\ ui.mounted
    /\ \E m \in {"characters", "words"} :
           form' = [form EXCEPT !.mode = m, !.generatedPassword = Null,
                                !.errorMessage = NoMessage]
    /\ UNCHANGED <<req, gen, ui, storage, served, calls, shuffling, probing>>

\* onChange of the "Password length" input.
SetLength ==
    /\ ui.mounted /\ form.mode = "characters"
    /\ \E value \in TypedLengths :
           form' = [form EXCEPT !.characterState.length =
                       clampValue(parseToInt(value, @), CHARACTER_LIMITS.length.min,
                                  CHARACTER_LIMITS.length.max).n10 \div 10]
    /\ UNCHANGED <<req, gen, ui, storage, served, calls, shuffling, probing>>

\* A faulty variant of SubmitEnabled: the button is never disabled.
SubmitAlwaysEnabled(f) == TRUE

\* The submit button: disabled={isSubmitting}
SubmitEnabled(f) == ~f.isSubmitting

\* The sequence without its k-th element.
Remove(seq, k) == SubSeq(seq, 1, k - 1) \o SubSeq(seq, k + 1, Len(seq))

\* The form is submitted, at most limit times: handleSubmit runs up to its
\* await and the fetch is on its way.
SubmitUpTo(limit) ==
    /\ ui.mounted /\ SubmitEnabled(form) /\ ui.submits < limit
    /\ form' = SubmitStarted(form)
    /\ ui' = [ui EXCEPT !.pending = Append(@, FormBody(form)), !.submits = @ + 1]
    /\ UNCHANGED <<req, gen, storage, served, calls, shuffling, probing>>

Submit == SubmitUpTo(MaxSubmits)

\* handleSubmit resumes with the given response to its k-th pending fetch;
\* a new history is saved by the effect of the render that follows.
Answered(k, response) ==
    /\ form' = SubmitAnswered(form, response)
    /\ storage' = IF Succeeded(response)
                  THEN SaveHistory(form'.passwordHistory) ELSE storage
    /\ served' = IF Succeeded(response)
                 THEN <<form'.generatedPassword>> \o served ELSE served
    /\ ui' = [ui EXCEPT !.pending = Remove(@, k)]
    /\ UNCHANGED <<req, gen, calls, shuffling, probing>>

\* The route answers one of the pending fetches.
FetchAnswered ==
    /\ ui.mounted
    /\ \E k \in 1..Len(ui.pending) : \E run \in ChildRuns(Len(served)) :
           Answered(k, Serve(ui.pending[k], run).response)

\* The request never reaches the route.
FetchRejected ==
    /\ ui.mounted
    /\ \E k \in 1..Len(ui.pending) :
           /\ form' = SubmitRejected(form)
           /\ ui' = [ui EXCEPT !.pending = Remove(@, k)]
    /\ UNCHANGED <<req, gen, storage, served, calls, shuffling, probing>>

NextForm ==
    \/ Mount
    \/ Reload
    \/ SetMode
    \/ SetLength
    \/ Submit
    \/ FetchAnswered
    \/ FetchRejected

SpecForm == Init /\ [][NextForm]_vars

-----------------------------------------------------------------------------
(* C3 *)

\* The words with the separator between every adjacent pair and never at
\* the ends; with an empty separator the words are simply concatenated.
RECURSIVE Separated(_, _)
Separated(words, sep) ==
    IF Len(words) = 0 THEN <<>>
    ELSE IF Len(words) = 1 THEN words[1]
    ELSE Separated(SubSeq(words, 1, Len(words) - 1), sep) \o sep \o words[Len(words)]

\* The separator the request asks for: its wordSeparator, "-" when it has none.
RequestedSeparator(b) ==
    IF b.f["wordSeparator"].t = "string" THEN b.f["wordSeparator"].str ELSE <<"-">>

\* C3 as stated: the passphrase returned for a request is its words joined
\* with the request's separator verbatim (no delimiter at all when that
\* separator is empty), followed by the suffix.
C3_AsStated ==
    (req.pc = "done" /\ req.mode = "words" /\ req.response.status = 200)
    => req.response.password
         = Separated(gen.words, RequestedSeparator(req.body)) \o gen.suffix

-----------------------------------------------------------------------------
(* C8 *)

-----------------------------------------------------------------------------
(* C9 *)

\* C9 as stated: the history lives in memory only: no storage ever holds a
\* generated password, and a page that is loaded again mounts with an
\* empty history.
C9_AsStated ==
    /\ storage.items = <<>>
    /\ ~ui.mounted => MountEffects(storage).form.passwordHistory = <<>>

-----------------------------------------------------------------------------
(* C11 *)

CharacterFlags == {"--length", "--special-count", "--digit-count", "--mixed-case-count"}

PassphraseFlags ==
    {"--use-words", "--word-count", "--word-separator", "--passphrase-digit-count",
     "--passphrase-special-count", "--passphrase-mixed-count",
     "--randomize-word-case", "--no-randomize-word-case"}

\* The flags among the arguments.
FlagsOf(args) == { args[i].lit : i \in 1..Len(args) } \ {""}

InPassphraseMode(args) == HasFlag(args, "--use-words") /\ FlagsOf(args) \subseteq PassphraseFlags

InCharacterMode(args) == ~HasFlag(args, "--use-words") /\ FlagsOf(args) = CharacterFlags

\* C11 as stated: mode "words" starts the generator in passphrase mode, mode
\* "characters" starts it in character mode, and a body with any other mode
\* never starts it.
C11_AsStated ==
    req.spawns > 0
    => /\ Get(req.body, "mode") = JStr(WordsStr) => InPassphraseMode(req.args)
       /\ Get(req.body, "mode") = JStr(CharactersStr) => InCharacterMode(req.args)
       /\ Get(req.body, "mode") \in {JStr(WordsStr), JStr(CharactersStr)}

\* C11: mode "words" starts the generator in passphrase mode with passphrase
\* arguments only; every other body that reaches the generator, whatever
\* its mode, starts it in character mode with the four character arguments.
C11_Dispatch ==
    req.spawns > 0
    => IF Get(req.body, "mode") = JStr(WordsStr)
       THEN InPassphraseMode(req.args) /\ req.mode = "words"
       ELSE InCharacterMode(req.args) /\ req.mode = "characters"

\* The generator runs for a body whose mode is neither of the two tags.
C11_Witness ==
    /\ req.spawns > 0
    /\ req.body.kind = "object"
    /\ req.body.f["mode"] = JStr(<<"x">>)
    /\ InCharacterMode(req.args)

-----------------------------------------------------------------------------
(* Concurrent invocations of POST *)

\* The bodies of the concurrent requests: they differ in their first number.
ConcurrentBodies ==
    { ObjectBody([mode |-> JStr(CharactersStr), length |-> JInt(16)]),
      ObjectBody([mode |-> JStr(CharactersStr), length |-> JInt(4)]),
      ObjectBody([mode |-> JStr(WordsStr), wordCount |-> JInt(3)]) }

\* What a child writes: a password that tells its argv ("c" or "w" and the
\* first number it was given), or a blank line.
ChildChunks(argv) ==
    { (IF HasFlag(argv, "--use-words") THEN <<"w">> ELSE <<"c">>)
          \o argv[IF HasFlag(argv, "--use-words") THEN 3 ELSE 2].str \o <<"\n">>,
      <<" ", "\n">> }

\* A faulty variant of DeliverStdout: one buffer serves every invocation.
DeliverStdoutToAll(cs, i, chunk) ==
    [j \in DOMAIN cs |->
        IF cs[j].r.pc = "running" /\ ~cs[j].r.closed
        THEN [cs[j] EXCEPT !.r = OnStdout(@, chunk)] ELSE cs[j]]

\* The data event of child i runs the listener invokePython registered for
\* it, which appends to the stdout of that invocation's closure.
DeliverStdout(cs, i, chunk) == [cs EXCEPT ![i].r = OnStdout(@, chunk)]

DeliverStderr(cs, i, chunk) == [cs EXCEPT ![i].r = OnStderr(@, chunk)]

ConcReceive(i) ==
    /\ calls[i].r.pc = "idle"
    /\ \E b \in ConcurrentBodies :
           calls' = [calls EXCEPT ![i] = [r |-> [InitReq EXCEPT !.pc = "received",
                                                                !.body = b],
                                          child |-> NoChild]]
    /\ UNCHANGED <<req, gen, form, ui, storage, served, shuffling, probing>>

ConcParse(i) ==
    /\ calls[i].r.pc = "received"
    /\ calls' = [calls EXCEPT ![i].r = PostParsed(@)]
    /\ UNCHANGED <<req, gen, form, ui, storage, served, shuffling, probing>>

ConcValidate(i) ==
    /\ calls[i].r.pc = "parsed"
    /\ calls' = [calls EXCEPT ![i].r = PostValidated(@)]
    /\ UNCHANGED <<req, gen, form, ui, storage, served, shuffling, probing>>

\* spawn("python", finalArgs): the child gets the args of this invocation.
ConcSpawn(i) ==
    /\ calls[i].r.pc = "validated"
    /\ calls' = [calls EXCEPT ![i] = [r |-> Spawned(calls[i].r),
                                      child |-> [NoChild EXCEPT !.argv = calls[i].r.args]]]
    /\ UNCHANGED <<req, gen, form, ui, storage, served, shuffling, probing>>

ConcStdout(i) ==
    /\ calls[i].r.pc = "running" /\ ~calls[i].r.closed
    /\ calls[i].r.chunks < MaxChunks
    /\ \E c \in ChildChunks(calls[i].child.argv) :
           calls' = [DeliverStdout(calls, i, c) EXCEPT ![i].child.out = @ \o c]
    /\ UNCHANGED <<req, gen, form, ui, storage, served, shuffling, probing>>

ConcStderr(i) ==
    /\ calls[i].r.pc = "running" /\ ~calls[i].r.closed
    /\ calls[i].r.chunks < MaxChunks
    /\ \E c \in StderrChunks :
           calls' = [DeliverStderr(calls, i, c) EXCEPT ![i].child.err = @ \o c]
    /\ UNCHANGED <<req, gen, form, ui, storage, served, shuffling, probing>>

ConcClose(i) ==
    /\ calls[i].r.pc = "running" /\ ~calls[i].r.closed
    /\ \E code \in ExitCodes : calls' = [calls EXCEPT ![i].r = OnClose(@, code)]
    /\ UNCHANGED <<req, gen, form, ui, storage, served, shuffling, probing>>

\* The child of invocation i could not be spawned, or failed otherwise.
ConcError(i) ==
    /\ calls[i].r.pc = "running" /\ ~calls[i].r.closed /\ ~calls[i].r.errored
    /\ calls' = [calls EXCEPT ![i].r = OnError(@)]
    /\ UNCHANGED <<req, gen, form, ui, storage, served, shuffling, probing>>

ConcRespond(i) ==
    /\ calls[i].r.pc = "running" /\ calls[i].r.promise \in {"resolved", "rejected"}
    /\ calls' = [calls EXCEPT ![i].r = PostResponded(@)]
    /\ UNCHANGED <<req, gen, form, ui, storage, served, shuffling, probing>>

\* The invocation has returned; another request may arrive in its place.
ConcReturn(i) ==
    /\ calls[i].r.pc = "done"
    /\ calls' = [calls EXCEPT ![i] = InitCalls[i]]
    /\ UNCHANGED <<req, gen, form, ui, storage, served, shuffling, probing>>

NextConc ==
    \E i \in Calls :
        \/ ConcReceive(i)
        \/ ConcParse(i)
        \/ ConcValidate(i)
        \/ ConcSpawn(i)
        \/ ConcStdout(i)
        \/ ConcStderr(i)
        \/ ConcClose(i)
        \/ ConcError(i)
        \/ ConcRespond(i)
        \/ ConcReturn(i)

SpecConc == Init /\ [][NextConc]_vars

-----------------------------------------------------------------------------
(* C12 *)

\* The password invokePython yields for what a child has written.
PasswordOf(out) ==
    LET lines == SplitLines(Trim(out)) IN Trim(lines[LastLineIndex(lines)])

\* C12: in every interleaving each invocation's child was spawned with the
\* arguments built from that invocation's own body, its stdout and stderr
\* buffers hold exactly what its own child has written, and a password it
\* returns is the one its own child printed.
C12_OwnOutput ==
    \A i \in Calls :
        LET r == calls[i].r
            child == calls[i].child
        IN  /\ r.spawns > 0
                => /\ child.argv = r.args
                   /\ r.args = IF Get(r.body, "mode") = JStr(WordsStr)
                               THEN PassphraseArgs(r.body) ELSE CharacterArgs(r.body)
                   /\ r.stdout = child.out
                   /\ r.stderr = child.err
            /\ (r.pc = "done" /\ r.response.status = 200)
                => r.response.password = PasswordOf(child.out)

\* Two invocations with different bodies overlap: both children have
\* written, and one invocation has answered with its password while the
\* other is still running.
C12_Witness ==
    /\ calls[1].r.pc = "done" /\ calls[1].r.response.status = 200
    /\ calls[2].r.pc = "running" /\ calls[2].child.out # <<>>
    /\ calls[1].r.body # calls[2].r.body
    /\ Trim(calls[2].child.out) # <<>>
    /\ calls[1].r.response.password # PasswordOf(calls[2].child.out)

-----------------------------------------------------------------------------
(* C13 *)

\* C13: a response carries a password only for a child that has exited with
\* code 0 without an error event, and then it is the whole last line the
\* child printed and nothing else; a child that exits with another code,
\* fails with an error event, or exits 0 having printed only blank text
\* yields the error response without a password.
C13_NoPartialOutput ==
    /\ req.response.hasPassword
        => /\ req.response.status = 200 /\ ~req.response.hasError
           /\ req.closed /\ req.exit = 0 /\ ~req.errored
           /\ req.response.password # <<>>
           /\ req.response.password = PasswordOf(req.stdout)
    /\ (req.pc = "done" /\ req.spawns > 0
          /\ (req.errored \/ (req.closed /\ req.exit # 0)
                \/ (req.closed /\ Trim(req.stdout) = <<>>)))
        => req.response = ErrorResponse(UnableMsg, 500)

\* A child has printed a password and then exits with a non-zero code (or
\* fails with an error event); the request is answered.
C13_Witness ==
    /\ req.pc = "done"
    /\ Trim(req.stdout) # <<>>
    /\ req.closed /\ req.exit # 0
    /\ req.response.status = 500

-----------------------------------------------------------------------------
(* C14 *)

\* The value of a numeric field of the request after the route's sanitisation.
Sanitized(key) == sanitizeNumber(Get(req.body, key), key)

\* A character request has been answered with a password.
CharacterPasswordReturned ==
    req.pc = "done" /\ req.mode = "characters" /\ req.response.status = 200

\* C14: the password generated for a valid character configuration, and
\* returned for the request that configured it, has exactly length characters.
C14_OutputLength ==
    /\ (gen.ran /\ req.mode = "characters")
        => Len(gen.output) = CharConfig(req.args).length
    /\ CharacterPasswordReturned
        => /\ req.response.password = gen.output
           /\ Len(req.response.password) = Sanitized("length")

\* A password of four characters, with filler, has been returned.
C14_Witness ==
    /\ CharacterPasswordReturned
    /\ Len(req.response.password) = 4
    /\ Sanitized("specialCount") + Sanitized("digitCount")
         + Sanitized("mixedCaseCount") < 4

-----------------------------------------------------------------------------
(* C15 *)

\* How many characters of s belong to the set.
CountIn(s, set) == Cardinality({ i \in 1..Len(s) : s[i] \in set })

SetOf(pool) == { pool[i] : i \in 1..Len(pool) }

\* C15 as stated: the output holds exactly specialCount special characters,
\* digitCount digits and mixedCaseCount letters, counted without regard to
\* case, and the rest is lowercase filler.
C15_AsStated ==
    CharacterPasswordReturned
    => LET pw == req.response.password IN
       /\ CountIn(pw, SetOf(SpecialPool)) = Sanitized("specialCount")
       /\ CountIn(pw, SetOf(DigitPool)) = Sanitized("digitCount")
       /\ CountIn(pw, SetOf(LowerPool) \cup SetOf(UpperPool)) = Sanitized("mixedCaseCount")

\* C15: the output holds exactly specialCount special characters and
\* digitCount digits; all other characters are letters, of which at most
\* mixedCaseCount are upper case.
C15_Categories ==
    CharacterPasswordReturned
    => LET pw == req.response.password IN
       /\ CountIn(pw, SetOf(SpecialPool)) = Sanitized("specialCount")
       /\ CountIn(pw, SetOf(DigitPool)) = Sanitized("digitCount")
       /\ CountIn(pw, SetOf(LowerPool) \cup SetOf(UpperPool))
            = Sanitized("length") - Sanitized("specialCount") - Sanitized("digitCount")
       /\ CountIn(pw, SetOf(UpperPool)) <= Sanitized("mixedCaseCount")

\* A password of two special characters, one digit and one mixed-case
\* letter that came out upper case.
C15_Witness ==
    /\ CharacterPasswordReturned
    /\ CountIn(req.response.password, SetOf(UpperPool)) = 1
    /\ CountIn(req.response.password, SetOf(SpecialPool)) = 2
    /\ CountIn(req.response.password, SetOf(DigitPool)) = 1

-----------------------------------------------------------------------------
(* C16 *)

\* s.split(sep) for a non-empty sep: s is cut at each occurrence of sep,
\* found from the left.
RECURSIVE Split(_, _)
Split(s, sep) ==
    LET n == Len(sep)
        At(i) == i + n - 1 <= Len(s) /\ SubSeq(s, i, i + n - 1) = sep
    IN  IF \A i \in 1..Len(s) : ~At(i) THEN <<s>>
        ELSE LET i == CHOOSE k \in 1..Len(s) : At(k) /\ \A j \in 1..(k - 1) : ~At(j)
             IN  <<SubSeq(s, 1, i - 1)>> \o Split(SubSeq(s, i + n, Len(s)), sep)

\* The drawn words, the last of them with the suffix attached.
ExpectedSegments ==
    [i \in 1..Len(gen.words) |->
        IF i < Len(gen.words) THEN gen.words[i] ELSE gen.words[i] \o gen.suffix]

\* The separator the route hands to the generator for the request.
GivenSeparator == sanitizeSeparator(Get(req.body, "wordSeparator"))

PassphraseReturned ==
    req.pc = "done" /\ req.mode = "words" /\ req.response.status = 200

\* C16 as stated: for every non-empty separator, the output split on the
\* separator is the wordCount drawn words in order, the last one followed
\* by the suffix.
C16_AsStated ==
    (PassphraseReturned /\ GivenSeparator # <<>>)
    => /\ Len(gen.words) = Sanitized("wordCount")
       /\ Split(req.response.password, GivenSeparator) = ExpectedSegments

\* The characters words and suffixes are made of.
WordAndSuffixChars ==
    SetOf(LowerPool) \cup SetOf(UpperPool) \cup SetOf(DigitPool) \cup SetOf(SpecialPool)

\* C16: for a non-empty separator that shares no character with the words
\* and the suffix pools, the output split on the separator is the wordCount
\* drawn words in order, the last one followed by the suffix.
C16_SplitOnSeparator ==
    (PassphraseReturned /\ GivenSeparator # <<>>
        /\ \A i \in 1..Len(GivenSeparator) : GivenSeparator[i] \notin WordAndSuffixChars)
    => /\ Len(gen.words) = Sanitized("wordCount")
       /\ Split(req.response.password, GivenSeparator) = ExpectedSegments

\* Three words joined by a separator of two characters, with a suffix.
C16_Witness ==
    /\ PassphraseReturned
    /\ GivenSeparator = <<".", ":">>
    /\ Len(gen.words) = 3 /\ gen.words[1] # gen.words[2]
    /\ gen.suffix # <<>>
    /\ Len(Split(req.response.password, GivenSeparator)) = 3

-----------------------------------------------------------------------------
(* shuffle on its own *)

\* The sequences shuffled have at most this many elements.
MaxShuffleLen == 4

\* Sequences of distinct elements and sequences with repeated ones.
ShuffleInputs ==
    { Take(base, n) : n \in 0..MaxShuffleLen,
                      base \in { <<"a", "b", "c", "d", "e", "f">>,
                                 <<"a", "a", "b", "b", "a", "c">>,
                                 <<"3", "2", "1", "0", "$", "%">> } }

\* The sequences of results uniformIndex can give during the shuffle of n
\* elements: the k-th call is uniformIndex(n - k + 1).
ShuffleResults(n) ==
    { r \in [1..Max(n - 1, 0) -> 0..Max(n - 1, 0)] :
        \A k \in 1..(n - 1) : r[k] < n - k + 1 }

InitShuffle ==
    /\ req = InitReq
    /\ gen = InitGen
    /\ form = InitForm
    /\ ui = InitUi
    /\ storage = NoItem
    /\ served = <<>>
    /\ calls = InitCalls
    /\ \E s \in ShuffleInputs : shuffling = [NoShuffle EXCEPT !.input = s]
    /\ probing = NoProbe

\* shuffle(sequence) runs, drawing its indices from the random source.
ShuffleRun ==
    /\ ~shuffling.done
    /\ \E r \in ShuffleResults(Len(shuffling.input)) :
           shuffling' = [shuffling EXCEPT !.results = r,
                                          !.output = Shuffle(shuffling.input, r),
                                          !.done = TRUE]
    /\ UNCHANGED <<req, gen, form, ui, storage, served, calls, probing>>

\* The next sequence is handed to shuffle.
ShuffleAgain ==
    /\ shuffling.done
    /\ \E s \in ShuffleInputs : shuffling' = [NoShuffle EXCEPT !.input = s]
    /\ UNCHANGED <<req, gen, form, ui, storage, served, calls, probing>>

NextShuffle ==
    \/ ShuffleRun
    \/ ShuffleAgain

SpecShuffle == InitShuffle /\ [][NextShuffle]_vars

-----------------------------------------------------------------------------
(* C17 *)

\* Every element occurs as often in t as in s.
SameElements(s, t) ==
    /\ Len(s) = Len(t)
    /\ \A x \in SetOf(s) \cup SetOf(t) : CountIn(s, {x}) = CountIn(t, {x})

\* The orderings of s.
Orderings(s) ==
    { [i \in 1..Len(s) |-> s[p[i]]] :
        p \in { q \in [1..Len(s) -> 1..Len(s)] :
                  \A i, j \in 1..Len(s) : q[i] = q[j] => i = j } }

Distinct(s) == \A i, j \in 1..Len(s) : s[i] = s[j] => i = j

\* C17: the output of shuffle has the elements of its input, each as often;
\* and for an input of distinct elements every ordering is the output for
\* some sequence of uniformIndex results, and the output reached is the
\* output for no sequence of results but the one drawn.
C17_UniformPermutation ==
    /\ shuffling.done => SameElements(shuffling.input, shuffling.output)
    /\ (~shuffling.done /\ Distinct(shuffling.input))
        => \A o \in Orderings(shuffling.input) :
              \E r \in ShuffleResults(Len(shuffling.input)) :
                  Shuffle(shuffling.input, r) = o
    /\ (shuffling.done /\ Distinct(shuffling.input))
        => \A r \in ShuffleResults(Len(shuffling.input)) :
              Shuffle(shuffling.input, r) = shuffling.output => r = shuffling.results

\* Four distinct elements have been shuffled into the reverse order.
C17_Witness ==
    /\ shuffling.done
    /\ shuffling.input = <<"a", "b", "c", "d">>
    /\ shuffling.output = <<"d", "c", "b", "a">>

-----------------------------------------------------------------------------
(* C18 *)

-----------------------------------------------------------------------------
(* C19 *)

\* The last line of the text that holds a character other than white space,
\* without the white space around it: the text from behind the last line
\* feed before the last such character up to that character, trimmed.
LastNonEmptyLine(text) ==
    LET marks == { i \in 1..Len(text) : text[i] \notin Whitespace }
        end == CHOOSE i \in marks : \A j \in marks : j <= i
        feeds == { i \in 1..end : text[i] = "\n" }
        start == IF feeds = {} THEN 1
                 ELSE 1 + CHOOSE i \in feeds : \A j \in feeds : j <= i
    IN  Trim(SubSeq(text, start, end))

\* C19: a password the route returns comes from a child that exited with
\* code 0 and is the last non-empty line of all the child wrote to stdout,
\* trimmed; a child that exits with code 0 after printing such a line, and
\* without an error event, has its request answered with that password;
\* and the promise of invokePython settles once and only once, also when
\* both the error and the close event fire.
C19_LastLineOnce ==
    /\ req.settles <= 1
    /\ (req.closed \/ req.errored) => req.settles = 1
    /\ req.response.hasPassword
        => /\ req.closed /\ req.exit = 0
           /\ req.response.password = LastNonEmptyLine(req.stdout)
    /\ (req.pc = "done" /\ req.closed /\ req.exit = 0 /\ ~req.errored
          /\ Trim(req.stdout) # <<>>)
        => req.response = PasswordResponse(LastNonEmptyLine(req.stdout))

\* The child printed two lines, the last one with white space around the
\* password and a carriage return before the line feed, and exited with 0.
C19_Witness ==
    /\ req.pc = "done" /\ req.closed /\ req.exit = 0
    /\ req.stdout = <<"p", "w", "\n", " ", "q", "1", " ", "\r", "\n">>
    /\ req.response.password = <<"q", "1">>
    /\ req.settles = 1

-----------------------------------------------------------------------------
(* PasswordGeneratorForm.tsx: the inputs *)

PASSPHRASE_LIMITS ==
    [wordCount |-> [min |-> 2, max |-> 16],
     passphraseDigitCount |-> [min |-> 0, max |-> 32],
     passphraseSpecialCount |-> [min |-> 0, max |-> 32],
     passphraseMixedCount |-> [min |-> 0, max |-> 64]]

\* What a number input reports as its value: the empty text when the field
\* is empty or does not hold a number, else the number as typed.
TypedNumbers ==
    { <<>>, <<"-", "3">>, <<"9", "9", "9">>, <<"2", ".", "5">> }

\* What the separator input may report; a pasted text can be longer than 5.
TypedSeparators == { <<>>, <<"a", "b", "c", "d", "e", "f", "g">> }

\* The value an onChange handler of a number input stores:
\* clampValue(parseToInt(value, prev.field), LIMITS.field.min, LIMITS.field.max)
ChangedNumber(value, prev, limits) ==
    clampValue(parseToInt(value, prev), limits.min, limits.max)

\* onChange of a number input of the character card, shown in character mode.
SetCharacterNumber(key) ==
    /\ ui.mounted /\ form.mode = "characters"
    /\ \E value \in TypedNumbers :
           form' = [form EXCEPT !.characterState[key] =
                       ChangedNumber(value, @, CHARACTER_LIMITS[key]).n10 \div 10]
    /\ UNCHANGED <<req, gen, ui, storage, served, calls, shuffling, probing>>

SetSpecialCount == SetCharacterNumber("specialCount")

SetDigitCount == SetCharacterNumber("digitCount")

SetMixedCaseCount == SetCharacterNumber("mixedCaseCount")

\* onChange of a number input of the passphrase card, shown in words mode.
SetPassphraseNumber(key) ==
    /\ ui.mounted /\ form.mode = "words"
    /\ \E value \in TypedNumbers :
           form' = [form EXCEPT !.passphraseState[key] =
                       ChangedNumber(value, @, PASSPHRASE_LIMITS[key]).n10 \div 10]
    /\ UNCHANGED <<req, gen, ui, storage, served, calls, shuffling, probing>>

SetWordCount == SetPassphraseNumber("wordCount")

SetPassphraseDigitCount == SetPassphraseNumber("passphraseDigitCount")

SetPassphraseSpecialCount == SetPassphraseNumber("passphraseSpecialCount")

SetPassphraseMixedCount == SetPassphraseNumber("passphraseMixedCount")

\* onChange of the separator input: value.slice(0, 5)
SetWordSeparator ==
    /\ ui.mounted /\ form.mode = "words"
    /\ \E value \in TypedSeparators :
           form' = [form EXCEPT !.passphraseState.wordSeparator =
                       Take(value, SeparatorMaxLen)]
    /\ UNCHANGED <<req, gen, ui, storage, served, calls, shuffling, probing>>

NextInputs ==
    \/ Mount
    \/ SetMode
    \/ SetLength
    \/ SetSpecialCount
    \/ SetDigitCount
    \/ SetMixedCaseCount
    \/ SetWordCount
    \/ SetPassphraseDigitCount
    \/ SetPassphraseSpecialCount
    \/ SetPassphraseMixedCount
    \/ SetWordSeparator

SpecInputs == Init /\ [][NextInputs]_vars

-----------------------------------------------------------------------------
(* C20 *)

CharacterNumberKeys == {"length", "specialCount", "digitCount", "mixedCaseCount"}

PassphraseNumberKeys ==
    {"wordCount", "passphraseDigitCount", "passphraseSpecialCount", "passphraseMixedCount"}

\* Texts that hold no number.
NotNumbers == { <<>>, <<"a", "b", "c">>, <<"-">>, <<" ">> }

\* The field is within its limits, every change of it stores an integer,
\* and a text that holds no number leaves it as it is.
FieldStays(current, limits) ==
    /\ limits.min <= current /\ current <= limits.max
    /\ \A value \in TypedNumbers \cup TypedLengths \cup NotNumbers :
           NumberIsInteger(ChangedNumber(value, current, limits))
    /\ \A value \in NotNumbers :
           ChangedNumber(value, current, limits) = IntNum(current)

\* C20: whatever the user has typed into the inputs, every numeric field of
\* the form is an integer within the limits of its field, the separator has
\* at most 5 characters, and an input that is empty or holds no number
\* leaves its field at the previous value.
C20_FieldsInBounds ==
    /\ \A key \in CharacterNumberKeys :
           FieldStays(form.characterState[key], CHARACTER_LIMITS[key])
    /\ \A key \in PassphraseNumberKeys :
           FieldStays(form.passphraseState[key], PASSPHRASE_LIMITS[key])
    /\ Len(form.passphraseState.wordSeparator) <= 5
    /\ CHARACTER_LIMITS.length = [min |-> 4, max |-> 256]
    /\ CHARACTER_LIMITS.specialCount = [min |-> 0, max |-> 64]
    /\ CHARACTER_LIMITS.digitCount = [min |-> 0, max |-> 64]
    /\ CHARACTER_LIMITS.mixedCaseCount = [min |-> 0, max |-> 128]
    /\ PASSPHRASE_LIMITS.wordCount = [min |-> 2, max |-> 16]
    /\ PASSPHRASE_LIMITS.passphraseDigitCount = [min |-> 0, max |-> 32]
    /\ PASSPHRASE_LIMITS.passphraseSpecialCount = [min |-> 0, max |-> 32]
    /\ PASSPHRASE_LIMITS.passphraseMixedCount = [min |-> 0, max |-> 64]

\* Inputs above, below and inside the limits have been typed, and a
\* separator of seven characters has been pasted.
C20_Witness ==
    /\ form.characterState.length = 256
    /\ form.characterState.specialCount = 0
    /\ form.characterState.mixedCaseCount = 2
    /\ form.passphraseState.wordCount = 2
    /\ form.passphraseState.passphraseMixedCount = 64
    /\ form.passphraseState.wordSeparator = <<"a", "b", "c", "d", "e">>

-----------------------------------------------------------------------------
(* C21 *)

\* A faulty variant of lowercaseFiller: the difference is shown as it is.
lowercaseFillerNoFloor(f) ==
    IF f.mode # "characters" THEN 0
    ELSE f.characterState.length
           - (f.characterState.specialCount + f.characterState.digitCount
              + f.characterState.mixedCaseCount)

\* The lowercaseFiller memo: 0 outside character mode, else
\* Math.max(0, length - (specialCount + digitCount + mixedCaseCount)).
lowercaseFiller(f) ==
    IF f.mode # "characters" THEN 0
    ELSE Max(0, f.characterState.length
                  - (f.characterState.specialCount + f.characterState.digitCount
                     + f.characterState.mixedCaseCount))

\* The selected counts of the character card, and what is left of the length.
SelectedCounts(f) ==
    f.characterState.specialCount + f.characterState.digitCount
      + f.characterState.mixedCaseCount

\* C21: in character mode the filler count the form shows is never negative;
\* it is length - (specialCount + digitCount + mixedCaseCount) whenever the
\* counts fit into the length, and 0 when they exceed it, and then the route
\* answers a submit of that state with the count-exceeds-length error,
\* whatever a generator would have printed.
C21_LowercaseFiller ==
    form.mode = "characters" =>
        /\ lowercaseFiller(form) >= 0
        /\ SelectedCounts(form) <= form.characterState.length
             => lowercaseFiller(form) = form.characterState.length - SelectedCounts(form)
        /\ SelectedCounts(form) > form.characterState.length
             => /\ lowercaseFiller(form) = 0
                /\ \A run \in ChildRuns(Len(served)) :
                       Serve(FormBody(form), run).response = CountErrorResponse
        /\ \A k \in 1..Len(ui.pending) :
             LET body == ui.pending[k] IN
             (/\ body.f["mode"] = JStr(CharactersStr)
              /\ body.f["specialCount"].num.n10 + body.f["digitCount"].num.n10
                   + body.f["mixedCaseCount"].num.n10 > body.f["length"].num.n10)
             => \A run \in ChildRuns(Len(served)) :
                    /\ SubmitAnswered(form, Serve(body, run).response).errorMessage
                         = Message(CountExceedsLengthMsg)
                    /\ SubmitAnswered(form, Serve(body, run).response).generatedPassword
                         = Null

\* The length was lowered below the sum of the counts, the form shows a
\* filler of 0, and the submit of that state has been answered.
C21_Witness ==
    /\ form.mode = "characters"
    /\ SelectedCounts(form) > form.characterState.length
    /\ lowercaseFiller(form) = 0
    /\ ~form.isSubmitting
    /\ form.errorMessage = Message(CountExceedsLengthMsg)
    /\ form.generatedPassword = Null

-----------------------------------------------------------------------------
(* C22 *)

\* How many elements of the argv are the given flag.
FlagCount(args, name) == Cardinality({ i \in 1..Len(args) : args[i] = Flag(name) })

\* The request's randomizeWordCapitalization is false or the string "false".
AsksNoRandomize(b) ==
    \/ Get(b, "randomizeWordCapitalization") = JBool(FALSE)
    \/ Get(b, "randomizeWordCapitalization") = JStr(<<"f", "a", "l", "s", "e">>)

\* C22: the argv POST builds for a passphrase request, and spawns the
\* generator with, holds exactly one of --randomize-word-case and
\* --no-randomize-word-case: the latter exactly when the request's
\* randomizeWordCapitalization is false or the string "false", the former
\* in every other case.
C22_RandomizeFlag ==
    (req.mode = "words" /\ req.pc \in {"validated", "running", "done"})
    => /\ FlagCount(req.args, "--randomize-word-case")
            + FlagCount(req.args, "--no-randomize-word-case") = 1
       /\ HasFlag(req.args, "--no-randomize-word-case") <=> AsksNoRandomize(req.body)
       /\ HasFlag(req.args, "--randomize-word-case") <=> ~AsksNoRandomize(req.body)

\* The generator was spawned for a request that says "false" as a string.
C22_Witness ==
    /\ req.mode = "words" /\ req.spawns > 0
    /\ Get(req.body, "randomizeWordCapitalization") = JStr(<<"f", "a", "l", "s", "e">>)
    /\ HasFlag(req.args, "--no-randomize-word-case")

-----------------------------------------------------------------------------
(* C23 *)

\* The mode literal a body of the form carries for the selected mode.
ModeTag(mode) == IF mode = "characters" THEN JStr(CharactersStr) ELSE JStr(WordsStr)

\* C23 as stated: a password the form comes to show was produced by a
\* request sent in the mode that is selected when it is shown, also when
\* the mode was switched while the request was in flight.
C23_AsStated ==
    [][(form'.generatedPassword # Null /\ form'.generatedPassword # form.generatedPassword)
       => \A k \in 1..Len(ui.pending) :
              ui'.pending = Remove(ui.pending, k)
                => ui.pending[k].f["mode"] = ModeTag(form'.mode)]_vars

-----------------------------------------------------------------------------
(* PasswordGeneratorForm.tsx: submitting, copying and the history panel *)

\* What may answer the fetch in place of the route (a proxy in front of it,
\* the error page of the server): a failure without a JSON body, one whose
\* JSON has no error member, a success whose body is not JSON, and a
\* success whose JSON has no password member.
GatewayResponses ==
    { [NoResponse EXCEPT !.kind = "text", !.status = 502],
      [NoResponse EXCEPT !.kind = "json", !.status = 500],
      [NoResponse EXCEPT !.kind = "text", !.status = 200],
      [NoResponse EXCEPT !.kind = "json", !.status = 200] }

UnableToCopyMsg == "Unable to copy to clipboard."

\* A value that passes if (!text) and {generatedPassword && ...}.
Truthy(v) == v.t = "string" /\ v.str # <<>>

\* The texts that have a copy button: the shown password, and every entry of
\* the history while the history panel is open.
CopyTexts(f) ==
    (IF Truthy(f.generatedPassword) THEN {f.generatedPassword} ELSE {})
    \cup (IF f.showHistory
          THEN { f.passwordHistory[i] : i \in 1..Len(f.passwordHistory) } ELSE {})

\* handleCopy(text), with whether navigator.clipboard.writeText succeeds.
handleCopy(f, text, written) ==
    IF ~Truthy(text) THEN f
    ELSE IF written THEN [f EXCEPT !.copied = TRUE]
    ELSE [f EXCEPT !.errorMessage = Message(UnableToCopyMsg)]

\* The user submits at most this often where copying is modelled too.
MaxRounds == 3

SubmitFew == SubmitUpTo(MaxRounds)

\* Something other than the route answers one of the pending fetches.
FetchAnsweredElsewhere ==
    /\ ui.mounted
    /\ \E k \in 1..Len(ui.pending) : \E response \in GatewayResponses :
           Answered(k, response)

\* The "Show History" / "Hide History" button.
ToggleHistory ==
    /\ ui.mounted
    /\ form' = [form EXCEPT !.showHistory = ~@]
    /\ UNCHANGED <<req, gen, ui, storage, served, calls, shuffling, probing>>

\* A copy button is clicked and the clipboard takes the text or refuses it.
Copy ==
    /\ ui.mounted
    /\ \E text \in CopyTexts(form) : \E written \in BOOLEAN :
           form' = handleCopy(form, text, written)
    /\ UNCHANGED <<req, gen, ui, storage, served, calls, shuffling, probing>>

\* setTimeout(() => setCopied(false), 1200)
CopiedTimeout ==
    /\ ui.mounted /\ form.copied
    /\ form' = [form EXCEPT !.copied = FALSE]
    /\ UNCHANGED <<req, gen, ui, storage, served, calls, shuffling, probing>>

NextSubmit ==
    \/ Mount
    \/ Reload
    \/ SetMode
    \/ SubmitFew
    \/ FetchAnswered
    \/ FetchAnsweredElsewhere
    \/ FetchRejected
    \/ ToggleHistory
    \/ Copy
    \/ CopiedTimeout

SpecSubmit == Init /\ [][NextSubmit]_vars

\* No fetch stays pending for ever: the browser gives a request up unless it
\* is answered before, by the route or by something else.
FairSubmit == SpecSubmit /\ WF_vars(FetchRejected)

-----------------------------------------------------------------------------
(* C24 *)

\* Exactly one of generatedPassword and errorMessage is not null.
ExactlyOneShown(f) == (f.generatedPassword # Null) # (~f.errorMessage.isNull)

\* C24 as stated: every submit ends with isSubmitting = false whatever the
\* outcome of its fetch, and where it ends exactly one of generatedPassword
\* and errorMessage is not null.
C24_AsStated ==
    /\ form.isSubmitting ~> ~form.isSubmitting
    /\ [][(form.isSubmitting /\ ~form'.isSubmitting /\ ui'.mounted)
          => ExactlyOneShown(form')]_vars

-----------------------------------------------------------------------------
(* C25 *)

\* C25: at most one fetch of the mounted form is pending, and one is
\* pending exactly while isSubmitting is true, when the submit button is
\* disabled; a submit starts only when none is pending, and the response
\* that is applied is the one to the oldest pending request.
C25_SingleFlight ==
    /\ [](ui.mounted =>
            /\ Len(ui.pending) <= 1
            /\ form.isSubmitting <=> Len(ui.pending) = 1
            /\ form.isSubmitting => ~SubmitEnabled(form))
    /\ [][Len(ui'.pending) > Len(ui.pending) => ui.pending = <<>>]_vars
    /\ [][(Len(ui'.pending) < Len(ui.pending) /\ ui'.mounted)
          => ui'.pending = Tail(ui.pending)]_vars

\* A second request of the form is in flight after the first was answered.
C25_Witness ==
    /\ ui.mounted /\ form.isSubmitting
    /\ Len(ui.pending) = 1 /\ ui.submits = 2 /\ Len(served) = 1

-----------------------------------------------------------------------------
(* C26 *)

\* What the fetch with the given body may be answered with.
PossibleResponses(body) ==
    { Serve(body, run).response : run \in ChildRuns(Len(served)) } \cup GatewayResponses

\* g is f after a failed submit: the same history, no password, an error.
FailedFrame(f, g) ==
    /\ g.passwordHistory = f.passwordHistory
    /\ g.generatedPassword = Null
    /\ ~g.errorMessage.isNull
    /\ ~g.isSubmitting

\* C26: for every pending fetch, a response that is not 2xx and a rejection
\* leave the history as it is and generatedPassword null, and set
\* errorMessage; the step that ends a submit either does just that, without
\* touching the stored history, or shows a password and puts it in front of
\* the history; and the history of the mounted form changes in no other step.
C26_FailedSubmitFrame ==
    /\ [](\A k \in 1..Len(ui.pending) :
            /\ FailedFrame(form, SubmitRejected(form))
            /\ \A response \in PossibleResponses(ui.pending[k]) :
                   response.status # 200
                     => FailedFrame(form, SubmitAnswered(form, response)))
    /\ [][(Len(ui'.pending) < Len(ui.pending) /\ ui'.mounted)
          => \/ /\ FailedFrame(form, form')
                /\ storage' = storage /\ served' = served
             \/ /\ form'.generatedPassword # Null
                /\ form'.passwordHistory
                     = Take(<<form'.generatedPassword>> \o form.passwordHistory,
                            HistoryLimit)]_vars
    /\ [][(ui.mounted /\ ui'.mounted /\ form'.passwordHistory # form.passwordHistory)
          => Len(ui'.pending) < Len(ui.pending)]_vars

\* A submit failed at the generator after an earlier one had succeeded: the
\* history still holds the earlier password, none is shown, the error is.
C26_Witness ==
    /\ ui.mounted /\ ~form.isSubmitting /\ ui.submits = 2
    /\ Len(form.passwordHistory) = 1
    /\ form.generatedPassword = Null
    /\ form.errorMessage = Message(UnableMsg)

-----------------------------------------------------------------------------
(* PasswordGeneratorForm.tsx: mounting under React's StrictMode *)

\* One run of the two mount effects of the first render, in the order of
\* their useEffect calls, on the stored item and the history the queued
\* state updates amount to: the load effect queues the parsed item, the save
\* effect writes the history of the first render, which is empty.
EffectsOnce(s) ==
    [history |-> IF s.storage.present THEN JsonParse(s.storage) ELSE s.history,
     storage |-> SaveHistory(InitForm.passwordHistory)]

\* Mounting in development with StrictMode: the effects of the first render
\* run, then run once more before the queued updates are rendered, so the
\* second load reads what the first save wrote; the render that follows
\* shows the last queued history and saves it.
MountEffectsTwice(item) ==
    LET once == EffectsOnce([history |-> InitForm.passwordHistory, storage |-> item])
        twice == EffectsOnce(once)
    IN  [form |-> [InitForm EXCEPT !.passwordHistory = twice.history],
         storage |-> SaveHistory(twice.history)]

\* The browser loads the page of a development build.
MountStrict ==
    /\ ~ui.mounted
    /\ form' = MountEffectsTwice(storage).form
    /\ storage' = MountEffectsTwice(storage).storage
    /\ ui' = [ui EXCEPT !.mounted = TRUE]
    /\ UNCHANGED <<req, gen, served, calls, shuffling, probing>>

NextMount ==
    \/ Mount
    \/ MountStrict
    \/ Reload
    \/ SetMode
    \/ ToggleHistory
    \/ SubmitFew
    \/ FetchAnswered
    \/ FetchRejected

SpecMount == Init /\ [][NextMount]_vars

-----------------------------------------------------------------------------
(* C27 *)

\* The history a stored item holds; none when there is no item.
StoredHistory(item) == IF item.present THEN JsonParse(item) ELSE <<>>

\* C27 as stated: when the form has mounted, its history and the stored
\* item both equal the history that was stored before the mount, whether
\* the mount effects ran once or twice.
C27_AsStated ==
    [][(~ui.mounted /\ ui'.mounted)
       => /\ form'.passwordHistory = StoredHistory(storage)
          /\ StoredHistory(storage') = StoredHistory(storage)]_vars

-----------------------------------------------------------------------------
(* C28 *)

\* C28: every response of POST with status 500 is the JSON object whose
\* error is the constant message and which has no other member, so two
\* invocations whose generators failed, in whatever different ways, give
\* identical responses, and nothing of stderr or of an exception is in them.
C28_ConstantFailure ==
    \A i, j \in Calls :
        LET a == calls[i].r.response
            b == calls[j].r.response
        IN  /\ a.status = 500
                => /\ a = ErrorResponse(UnableMsg, 500)
                   /\ a.error = "Unable to generate password at this time."
                   /\ ~a.hasPassword /\ a.password = <<>>
            /\ (a.status = 500 /\ b.status = 500) => a = b
            /\ (calls[i].r.pc = "done" /\ calls[i].r.promise = "rejected")
                => a.status = 500

\* Two invocations have answered 500: the generator of one wrote to stderr
\* and exited with a failure, the other one could not be started.
C28_Witness ==
    /\ calls[1].r.pc = "done" /\ calls[1].r.response.status = 500
    /\ calls[2].r.pc = "done" /\ calls[2].r.response.status = 500
    /\ calls[1].r.reason.kind = "stderr" /\ calls[1].r.reason.text # <<>>
    /\ calls[2].r.reason.kind = "spawn"

-----------------------------------------------------------------------------
(* C29 *)

\* The numeric fields of the card that is submitted in the given mode, and
\* the state they are taken from.
SubmittedKeys(f) ==
    IF f.mode = "characters" THEN CharacterNumberKeys ELSE PassphraseNumberKeys

SubmittedState(f) == IF f.mode = "characters" THEN f.characterState ELSE f.passphraseState

\* C29: in every state the form reaches through its inputs, each numeric
\* field of the body a submit would send is returned unchanged by the
\* route's sanitizeNumber, is within the route's limits, and is what the
\* route passes to the generator.
C29_LimitsAgree ==
    LET body == FormBody(form)
        validated == PostValidated(PostParsed([InitReq EXCEPT !.pc = "received",
                                                              !.body = body]))
    IN  \A key \in SubmittedKeys(form) :
            /\ Get(body, key) = JInt(SubmittedState(form)[key])
            /\ sanitizeNumber(Get(body, key), key) = SubmittedState(form)[key]
            /\ LIMITS[key].min <= SubmittedState(form)[key]
            /\ SubmittedState(form)[key] <= LIMITS[key].max
            /\ validated.pc = "validated"
                 => ArgInt(validated.args, FlagFor[key]) = SubmittedState(form)[key]

\* The passphrase card would be submitted with fields at the upper and
\* lower limits of the form, after the character card was filled likewise.
C29_Witness ==
    /\ ui.mounted /\ form.mode = "words"
    /\ form.passphraseState.wordCount = 16
    /\ form.passphraseState.passphraseMixedCount = 64
    /\ form.passphraseState.passphraseDigitCount = 0
    /\ form.characterState.mixedCaseCount = 128

-----------------------------------------------------------------------------
(* sanitizeNumber on its own *)

\* String(v) of a finite number below 10^21: the decimal digits, with a
\* sign when negative and a fraction when there is one.
NumberToString(x) ==
    LET a == IF x.n10 < 0 THEN 0 - x.n10 ELSE x.n10
        sign == IF x.n10 < 0 THEN <<"-">> ELSE <<>>
    IN  IF a % 10 = 0 THEN sign \o NatToString(a \div 10)
        ELSE sign \o NatToString(a \div 10) \o <<".", DigitChar(a % 10)>>

\* The values given to sanitizeNumber, in tenths: integers below, inside and
\* above the limits of every field, and numbers with a fraction.
ProbeTenths ==
    {0 - 30, 0 - 5, 0, 5, 10, 15, 20, 25, 40, 45, 160, 165, 170, 320, 330,
     640, 650, 655, 1280, 1290, 2560, 2565, 2570, 3000}

InitSanitize ==
    /\ req = InitReq
    /\ gen = InitGen
    /\ form = InitForm
    /\ ui = InitUi
    /\ storage = NoItem
    /\ served = <<>>
    /\ calls = InitCalls
    /\ shuffling = NoShuffle
    /\ \E key \in NumericKeys : \E t \in ProbeTenths :
           probing = [NoProbe EXCEPT !.key = key, !.value = TenthsNum(t)]

\* sanitizeNumber(v, key) and sanitizeNumber(String(v), key)
SanitizeBoth ==
    /\ ~probing.done
    /\ probing' = [probing EXCEPT
                      !.asNumber = sanitizeNumber(JNum(probing.value), probing.key),
                      !.asString = sanitizeNumber(JStr(NumberToString(probing.value)),
                                                  probing.key),
                      !.done = TRUE]
    /\ UNCHANGED <<req, gen, form, ui, storage, served, calls, shuffling>>

NextSanitize == SanitizeBoth

SpecSanitize == InitSanitize /\ [][NextSanitize]_vars

-----------------------------------------------------------------------------
(* C30 *)

Truncated(x) ==
    IF x.n10 < 0 THEN 0 - ((0 - x.n10) \div 10) ELSE x.n10 \div 10

====
